---- MODULE Spec2Model ----
(***************************************************************************)
(* Chord recognition pipeline of chordio:                                  *)
(*   src/src/lib/chord-detection/ChordDetector.ts                          *)
(* Frame loop, chroma normalisation, template matching (Pearson            *)
(* correlation), segment merging and filtering.                            *)
(*                                                                         *)
(* Numbers.  Two arithmetics are modelled.                                 *)
(* Exact arithmetic, in which no operation rounds:                         *)
(*   - a rational is a pair <<n, d>> in lowest terms with d > 0;           *)
(*     <<0, 0>> is NaN (the result of 0 / 0);                              *)
(*   - a vector of numbers is [den, v]: element i is v[i] / den, and       *)
(*     den = 0 when every element is NaN (a vector divided by its zero     *)
(*     maximum);                                                           *)
(*   - a correlation n / sqrt(p) is a "surd" [s, q]: sign s and the        *)
(*     rational square q of the value, so that it can be compared          *)
(*     without computing a square root; [s |-> 0, q |-> NaN] is NaN;       *)
(*   - a confidence (an average of correlations) is a "real": a finite     *)
(*     sum of rational multiples of square roots of squarefree integers,   *)
(*     a set of <<radicand, coefficient>> with distinct radicands.         *)
(* Binary64 arithmetic, the numbers of JavaScript with the rounding of     *)
(* every operation, for the matcher on vectors whose sums are not exact.   *)
(***************************************************************************)
EXTENDS Integers, Sequences, FiniteSets, TLC

(***************************************************************************)
(* Bounds of the model                                                     *)
(***************************************************************************)
\* at most this many frames are analysed in one detectChords call
MaxFrames == 3
\* chroma vectors given to the matcher have at most this many sounding notes
MaxNotes == 3
\* ... the lowest of which has an energy in 1 .. MaxEnergy, the others 1
MaxEnergy == 2
\* positive scale factors 2 .. MaxScale applied to a chroma vector
MaxScale == 3
\* at most this many candidates are given to postProcessChords alone
MaxCandidates == 5
\* at most this many segments are given to a MIDI generator
MaxSegments == 2

(***************************************************************************)
(* Exact arithmetic                                                        *)
(***************************************************************************)
Abs(x) == IF x < 0 THEN -x ELSE x

Sign(x) == IF x < 0 THEN -1 ELSE IF x = 0 THEN 0 ELSE 1

RECURSIVE GCD(_, _)
GCD(a, b) == IF b = 0 THEN a ELSE GCD(b, a % b)

\* the rational n / d (d # 0) in lowest terms with a positive denominator
Rat(n, d) ==
  IF d = 1 THEN <<n, 1>>
  ELSE LET g == GCD(Abs(n), Abs(d))
           s == IF d < 0 THEN -1 ELSE 1
       IN  <<s * (n \div g), Abs(d) \div g>>

NaN == <<0, 0>>

IsNaN(x) == x[2] = 0

Int2Num(k) == <<k, 1>>

\* x + y, x - y, x * y, x / y on JavaScript numbers (NaN is contagious;
\* 0 / 0 is NaN).  A non-zero value divided by 0 is an infinity, which no
\* value of this model produces: chroma bins are energies >= 0, so a
\* vector whose maximum is 0 is all zero.
NumAdd(x, y) ==
  IF IsNaN(x) \/ IsNaN(y) THEN NaN
  ELSE IF x[2] = 1 /\ y[2] = 1 THEN <<x[1] + y[1], 1>>
  ELSE IF x[2] = y[2] THEN Rat(x[1] + y[1], x[2])
  ELSE Rat(x[1] * y[2] + y[1] * x[2], x[2] * y[2])

NumNeg(x) == IF IsNaN(x) THEN NaN ELSE <<-x[1], x[2]>>

NumSub(x, y) == NumAdd(x, NumNeg(y))

NumMul(x, y) ==
  IF IsNaN(x) \/ IsNaN(y) THEN NaN
  ELSE IF x[2] = 1 /\ y[2] = 1 THEN <<x[1] * y[1], 1>>
  ELSE Rat(x[1] * y[1], x[2] * y[2])

NumDiv(x, y) ==
  IF IsNaN(x) \/ IsNaN(y) \/ y[1] = 0 THEN NaN
  ELSE Rat(x[1] * y[2], x[2] * y[1])

\* x < y, x <= y, x > y: every comparison with NaN is false
NumLt(x, y) == ~IsNaN(x) /\ ~IsNaN(y) /\ x[1] * y[2] < y[1] * x[2]

NumLe(x, y) == ~IsNaN(x) /\ ~IsNaN(y) /\ x[1] * y[2] <= y[1] * x[2]

NumGt(x, y) == NumLt(y, x)

NumGe(x, y) == NumLe(y, x)

(***************************************************************************)
(* Surds: s * sqrt(q), the values of Math.sqrt and of a correlation        *)
(***************************************************************************)
SurdNaN == [s |-> 0, q |-> NaN]

IsSurdNaN(x) == IsNaN(x.q)

Num2Surd(x) ==
  IF IsNaN(x) THEN SurdNaN ELSE [s |-> Sign(x[1]), q |-> NumMul(x, x)]

\* Math.sqrt(x): NaN for a negative argument
MathSqrt(x) ==
  IF IsNaN(x) \/ x[1] < 0 THEN SurdNaN ELSE [s |-> Sign(x[1]), q |-> x]

\* numerator / denominator with a rational numerator and a surd
\* denominator.  A zero denominator gives NaN: the Pearson denominator is 0
\* only when the numerator is 0 too (Cauchy-Schwarz), and 0 / 0 is NaN.
SurdDiv(x, y) ==
  IF IsNaN(x) \/ IsSurdNaN(y) THEN SurdNaN
  ELSE IF y.s = 0 THEN SurdNaN
  ELSE [s |-> Sign(x[1]) * y.s, q |-> NumDiv(NumMul(x, x), y.q)]

\* x > y on surds; false when either is NaN
SurdGt(x, y) ==
  /\ ~IsSurdNaN(x)
  /\ ~IsSurdNaN(y)
  /\ \/ x.s > y.s
     \/ x.s = 1 /\ y.s = 1 /\ NumGt(x.q, y.q)
     \/ x.s = -1 /\ y.s = -1 /\ NumLt(x.q, y.q)

SurdGe(x, y) == ~IsSurdNaN(x) /\ ~IsSurdNaN(y) /\ (x = y \/ SurdGt(x, y))

(***************************************************************************)
(* Reals: sums of rational multiples of square roots, the values of a      *)
(* confidence.  A real is a function from squarefree radicands to non-zero *)
(* rational coefficients (radicand 1 carries the rational part), which is  *)
(* a canonical form: two reals are equal iff the functions are.            *)
(***************************************************************************)
RealNaN == [nan |-> TRUE, terms |-> <<>>]

\* the largest k with k * k dividing m (m >= 1)
SquarePart(m) ==
  LET S == {k \in 1..m : k * k <= m /\ m % (k * k) = 0}
  IN  CHOOSE k \in S : \A j \in S : j <= k

\* s * sqrt(p / q) = (s * sp / (sq * tq)) * sqrt(tp * tq), where p = sp^2 * tp
\* and q = sq^2 * tq with tp, tq squarefree
Surd2Real(x) ==
  IF IsSurdNaN(x) THEN RealNaN
  ELSE IF x.s = 0 THEN [nan |-> FALSE, terms |-> <<>>]
  ELSE LET p == x.q[1]
           q == x.q[2]
           sp == SquarePart(p)
           sq == SquarePart(q)
           tp == p \div (sp * sp)
           tq == q \div (sq * sq)
       IN  [nan |-> FALSE,
            terms |-> [r \in {tp * tq} |-> Rat(x.s * sp, sq * tq)]]

RealCoef(x, r) == IF r \in DOMAIN x.terms THEN x.terms[r] ELSE Int2Num(0)

\* x + y
RealAdd(x, y) ==
  IF x.nan \/ y.nan THEN RealNaN
  ELSE LET D == {r \in (DOMAIN x.terms) \cup (DOMAIN y.terms) :
                   NumAdd(RealCoef(x, r), RealCoef(y, r)) # Int2Num(0)}
       IN  [nan |-> FALSE,
            terms |-> [r \in D |-> NumAdd(RealCoef(x, r), RealCoef(y, r))]]

\* x / k for an integer k > 0
RealDivInt(x, k) ==
  IF x.nan THEN RealNaN
  ELSE [nan |-> FALSE,
        terms |-> [r \in DOMAIN x.terms |-> NumDiv(x.terms[r], Int2Num(k))]]

(***************************************************************************)
(* Vectors of numbers with a common denominator                            *)
(***************************************************************************)
\* the vector of integers v
IntVector(v) == [den |-> 1, v |-> v]

\* Math.max(...vec) for a vector of numbers (not NaN)
RECURSIVE IntMax(_, _)
IntMax(v, k) ==
  IF k = 1 THEN v[1]
  ELSE LET m == IntMax(v, k - 1) IN IF v[k] > m THEN v[k] ELSE m

MathMax(vec) == Rat(IntMax(vec.v, Len(vec.v)), vec.den)

\* vec.map(value => value / x) for x >= 0.  x = 0 is the maximum of a
\* vector of energies only when every element is 0, and 0 / 0 is NaN.
VectorDivide(vec, x) ==
  CASE x[1] > 0 -> [den |-> vec.den * x[1], v |-> [i \in DOMAIN vec.v |-> vec.v[i] * x[2]]]
    [] x[1] = 0 /\ (\A i \in DOMAIN vec.v : vec.v[i] = 0) ->
         [den |-> 0, v |-> vec.v]

\* element i of the vector as a number
VectorAt(vec, i) == IF vec.den = 0 THEN NaN ELSE Rat(vec.v[i], vec.den)

(***************************************************************************)
(* Natural numbers of any size, for the significands of binary64 numbers:  *)
(* sequences of limbs, least significant first, without leading zero       *)
(* limbs (0 is the empty sequence)                                         *)
(***************************************************************************)
LimbBits == 14

LimbBase == 2^LimbBits

Limb(a, i) == IF i >= 1 /\ i <= Len(a) THEN a[i] ELSE 0

RECURSIVE BigTrim(_)
BigTrim(a) ==
  IF a = <<>> THEN a
  ELSE IF a[Len(a)] = 0 THEN BigTrim(SubSeq(a, 1, Len(a) - 1)) ELSE a

\* the limbs of the number whose limb i is cols[i] before carrying
RECURSIVE BigCarry(_, _, _, _)
BigCarry(cols, i, carry, acc) ==
  IF i > Len(cols) /\ carry = 0 THEN acc
  ELSE LET s == Limb(cols, i) + carry
       IN  BigCarry(cols, i + 1, s \div LimbBase, Append(acc, s % LimbBase))

BigFromColumns(cols) == BigTrim(BigCarry(cols, 1, 0, <<>>))

BigLen(a, b) == IF Len(a) >= Len(b) THEN Len(a) ELSE Len(b)

BigAdd(a, b) == BigFromColumns([i \in 1..BigLen(a, b) |-> Limb(a, i) + Limb(b, i)])

\* a - b for a >= b
BigSub(a, b) == BigFromColumns([i \in 1..BigLen(a, b) |-> Limb(a, i) - Limb(b, i)])

\* a * b for numbers of at most four limbs
BigMul(a, b) ==
  BigFromColumns([k \in 1..(Len(a) + Len(b)) |->
    Limb(a, 1) * Limb(b, k) + Limb(a, 2) * Limb(b, k - 1)
    + Limb(a, 3) * Limb(b, k - 2) + Limb(a, 4) * Limb(b, k - 3)])

\* -1, 0, 1 as a < b, a = b, a > b
BigCmp(a, b) ==
  IF Len(a) # Len(b) THEN (IF Len(a) > Len(b) THEN 1 ELSE -1)
  ELSE LET D == {i \in 1..Len(a) : a[i] # b[i]}
       IN  IF D = {} THEN 0
           ELSE LET i == CHOOSE x \in D : \A y \in D : x >= y
                IN  IF a[i] > b[i] THEN 1 ELSE -1

\* a * 2^k and floor(a / 2^k)
BigShl(a, k) ==
  LET q == k \div LimbBits
      r == k % LimbBits
  IN  BigTrim([j \in 1..(Len(a) + q + 1) |->
                 ((Limb(a, j - q) * 2^r) % LimbBase)
                 + (Limb(a, j - q - 1) \div 2^(LimbBits - r))])

BigShr(a, k) ==
  LET q == k \div LimbBits
      r == k % LimbBits
  IN  IF Len(a) <= q THEN <<>>
      ELSE BigTrim([j \in 1..(Len(a) - q) |->
                      (Limb(a, j + q) \div 2^r)
                      + ((Limb(a, j + q + 1) % 2^r) * 2^(LimbBits - r))])

\* bit k of a (bit 0 is the least significant)
BigBit(a, k) == (Limb(a, (k \div LimbBits) + 1) \div 2^(k % LimbBits)) % 2

\* the k least significant bits of a are all 0
BigLowZero(a, k) ==
  /\ \A i \in 1..(k \div LimbBits) : Limb(a, i) = 0
  /\ Limb(a, (k \div LimbBits) + 1) % 2^(k % LimbBits) = 0

\* the number of bits of a
BigBitLen(a) ==
  IF a = <<>> THEN 0
  ELSE LimbBits * (Len(a) - 1)
       + (CHOOSE n \in 1..LimbBits : 2^(n - 1) <= a[Len(a)] /\ a[Len(a)] < 2^n)

\* one step of binary long division by b: a 0 bit is brought down to
\* the remainder r and the quotient q gets its next bit
BigDivBit(b, q, r) ==
  IF BigCmp(r, b) >= 0 THEN [quo |-> BigAdd(q, <<1>>), rem |-> BigSub(r, b)]
  ELSE [quo |-> q, rem |-> r]

BigDivStep(b, st) == BigDivBit(b, BigShl(st.quo, 1), BigShl(st.rem, 1))

\* k steps from the state st
RECURSIVE BigDivSteps(_, _, _)
BigDivSteps(b, st, k) ==
  IF k = 0 THEN st
  ELSE IF k = 1 THEN BigDivStep(b, st)
  ELSE LET first == BigDivSteps(b, st, k \div 2)
       IN  CASE Len(first.quo) >= 0 -> BigDivSteps(b, first, k - (k \div 2))

\* floor(a * 2^k / b) and the remainder, for a < 2 * b
BigDiv(a, b, k) ==
  BigDivSteps(b,
              IF BigCmp(a, b) >= 0 THEN [quo |-> <<1>>, rem |-> BigSub(a, b)]
              ELSE [quo |-> <<>>, rem |-> a],
              k)

\* one step of the binary digit method for the square root: bit is the
\* power of 4 tried, t the root so far plus that bit, half the root so
\* far shifted
BigSqrtBit(rem, half, bit, t) ==
  IF BigCmp(rem, t) >= 0 THEN [rem |-> BigSub(rem, t), root |-> BigAdd(half, bit)]
  ELSE [rem |-> rem, root |-> half]

BigSqrtTry(st, bit) == BigSqrtBit(st.rem, BigShr(st.root, 1), bit, BigAdd(st.root, bit))

BigSqrtStep(st, i) == BigSqrtTry(st, BigShl(<<1>>, 2 * i))

\* the k steps for the bits 4^i, 4^(i - 1), ... from the state st
RECURSIVE BigSqrtSteps(_, _, _)
BigSqrtSteps(st, i, k) ==
  IF k = 0 THEN st
  ELSE IF k = 1 THEN BigSqrtStep(st, i)
  ELSE LET first == BigSqrtSteps(st, i, k \div 2)
       IN  CASE Len(first.root) >= 0 -> BigSqrtSteps(first, i - (k \div 2), k - (k \div 2))

\* floor(sqrt(a)) and what is left of a
BigSqrt(a) ==
  BigSqrtSteps([rem |-> a, root |-> <<>>], (BigBitLen(a) + 1) \div 2,
               ((BigBitLen(a) + 1) \div 2) + 1)

(***************************************************************************)
(* JavaScript numbers as they are: IEEE 754 binary64, every operation      *)
(* rounded to nearest, ties to even.  A finite non-zero number is           *)
(* sign * man * 2^exp with 2^52 <= man < 2^53.                             *)
(***************************************************************************)
Precision == 53

DoubleNaN == [cls |-> "nan"]

DoubleZero == [cls |-> "zero"]

\* the finite number sign * n * 2^e, n of Precision bits or one more
DoubleNormal(sign, n, e) ==
  IF BigBitLen(n) > Precision
  THEN [cls |-> "fin", sign |-> sign, exp |-> e + 1, man |-> BigShr(n, 1)]
  ELSE [cls |-> "fin", sign |-> sign, exp |-> e, man |-> n]

\* q is n without its sh lowest bits, of which half is the highest and
\* rest tells whether any other (or anything below n) is set
DoubleRoundHalf(sign, q, e, half, rest) ==
  DoubleNormal(sign,
               IF half /\ (rest \/ BigBit(q, 0) = 1) THEN BigAdd(q, <<1>>) ELSE q,
               e)

DoubleRoundBits(sign, n, e, sticky, bits) ==
  IF bits <= Precision
  THEN [cls |-> "fin", sign |-> sign, exp |-> e - (Precision - bits),
        man |-> BigShl(n, Precision - bits)]
  ELSE DoubleRoundHalf(sign, BigShr(n, bits - Precision), e + (bits - Precision),
                       BigBit(n, bits - Precision - 1) = 1,
                       sticky \/ ~BigLowZero(n, bits - Precision - 1))

\* the double nearest to x.sign * x.n * 2^x.e, or to a number a little
\* above it in magnitude when x.sticky
DoubleRound(x) ==
  IF x.n = <<>> THEN DoubleZero
  ELSE DoubleRoundBits(x.sign, x.n, x.e, x.sticky, BigBitLen(x.n))

Unrounded(sign, n, e, sticky) == [sign |-> sign, n |-> n, e |-> e, sticky |-> sticky]

\* the double of a small integer
DoubleOfInt(k) ==
  DoubleRound(Unrounded(IF k >= 0 THEN 1 ELSE -1, BigTrim(<<(IF k >= 0 THEN k ELSE -k)>>),
                        0, FALSE))

DoubleNeg(x) == IF x.cls = "fin" THEN [x EXCEPT !.sign = -x.sign] ELSE x

\* x + y before rounding, for finite non-zero x, y whose exponents differ
\* by at most Precision + 3; a is the significand of x at the exponent of y
DoubleAddNear(x, y, a) ==
  IF x.sign = y.sign THEN Unrounded(x.sign, BigAdd(a, y.man), y.exp, FALSE)
  ELSE IF BigCmp(a, y.man) >= 0 THEN Unrounded(x.sign, BigSub(a, y.man), y.exp, FALSE)
  ELSE Unrounded(y.sign, BigSub(y.man, a), y.exp, FALSE)

\* x + y before rounding, y being below the rounding bit of x
DoubleAddFar(x, y) ==
  Unrounded(x.sign,
            IF x.sign = y.sign THEN BigShl(x.man, 3) ELSE BigSub(BigShl(x.man, 3), <<1>>),
            x.exp - 3, TRUE)

\* x + y for finite non-zero x, y with x.exp >= y.exp
DoubleAddOrdered(x, y) ==
  DoubleRound(IF x.exp - y.exp > Precision + 3 THEN DoubleAddFar(x, y)
              ELSE DoubleAddNear(x, y, BigShl(x.man, x.exp - y.exp)))

DoubleAdd(x, y) ==
  IF x.cls = "nan" \/ y.cls = "nan" THEN DoubleNaN
  ELSE IF x.cls = "zero" THEN y
  ELSE IF y.cls = "zero" THEN x
  ELSE DoubleAddOrdered(IF x.exp >= y.exp THEN x ELSE y,
                        IF x.exp >= y.exp THEN y ELSE x)

DoubleSub(x, y) == DoubleAdd(x, DoubleNeg(y))

DoubleMul(x, y) ==
  IF x.cls = "nan" \/ y.cls = "nan" THEN DoubleNaN
  ELSE IF x.cls = "zero" \/ y.cls = "zero" THEN DoubleZero
  ELSE DoubleRound(Unrounded(x.sign * y.sign, BigMul(x.man, y.man), x.exp + y.exp, FALSE))

DoubleQuotient(sign, d, e) == DoubleRound(Unrounded(sign, d.quo, e, d.rem # <<>>))

\* x / y; a division of a non-zero number by zero (an infinity) does not
\* occur in the program
DoubleDiv(x, y) ==
  IF x.cls = "nan" \/ y.cls = "nan" \/ y.cls = "zero" THEN DoubleNaN
  ELSE IF x.cls = "zero" THEN DoubleZero
  ELSE DoubleQuotient(x.sign * y.sign, BigDiv(x.man, y.man, Precision + 3),
                      x.exp - y.exp - (Precision + 3))

DoubleRoot(s, e) == DoubleRound(Unrounded(1, s.root, e, s.rem # <<>>))

\* Math.sqrt(x): the significand is shifted so that the exponent is even
\* and the root has Precision + 2 bits or more
DoubleSqrt(x) ==
  IF x.cls = "nan" THEN DoubleNaN
  ELSE IF x.cls = "zero" THEN DoubleZero
  ELSE IF x.sign < 0 THEN DoubleNaN
  ELSE DoubleRoot(BigSqrt(BigShl(x.man, Precision + 3 + (x.exp % 2))),
                  (x.exp - (Precision + 3) - (x.exp % 2)) \div 2)

\* -1, 0, 1 as |x| < |y|, |x| = |y|, |x| > |y| for finite non-zero x, y
DoubleCmpMagnitude(x, y) ==
  IF x.exp # y.exp THEN (IF x.exp > y.exp THEN 1 ELSE -1) ELSE BigCmp(x.man, y.man)

DoubleSign(x) == IF x.cls = "zero" THEN 0 ELSE x.sign

\* x > y
DoubleGt(x, y) ==
  IF x.cls = "nan" \/ y.cls = "nan" THEN FALSE
  ELSE IF DoubleSign(x) # DoubleSign(y) THEN DoubleSign(x) > DoubleSign(y)
  ELSE IF DoubleSign(x) = 0 THEN FALSE
  ELSE DoubleCmpMagnitude(x, y) * DoubleSign(x) > 0

(***************************************************************************)
(* Constant tables                                                         *)
(***************************************************************************)
chordTemplates ==
  << <<1, 0, 0, 0, 1, 0, 0, 1, 0, 0, 0, 0>>,   \* major
     <<1, 0, 0, 1, 0, 0, 0, 1, 0, 0, 0, 0>>,   \* minor
     <<1, 0, 0, 0, 1, 0, 0, 1, 0, 0, 1, 0>>,   \* dominant7
     <<1, 0, 0, 0, 1, 0, 0, 1, 0, 0, 0, 1>>,   \* major7
     <<1, 0, 0, 1, 0, 0, 0, 1, 0, 0, 1, 0>>,   \* minor7
     <<1, 0, 0, 1, 0, 0, 1, 0, 0, 0, 0, 0>>,   \* diminished
     <<1, 0, 0, 0, 1, 0, 0, 0, 1, 0, 0, 0>>,   \* augmented
     <<1, 0, 1, 0, 0, 0, 0, 1, 0, 0, 0, 0>>,   \* sus2
     <<1, 0, 0, 0, 0, 1, 0, 1, 0, 0, 0, 0>> >> \* sus4

\* the keys of chordTemplates in Object.entries order
chordTypes ==
  <<"major", "minor", "dominant7", "major7", "minor7",
    "diminished", "augmented", "sus2", "sus4">>

noteNames ==
  << <<"C">>, <<"C", "#">>, <<"D">>, <<"D", "#">>, <<"E">>, <<"F">>,
     <<"F", "#">>, <<"G">>, <<"G", "#">>, <<"A">>, <<"A", "#">>, <<"B">> >>

frameSize == 4096

hopSize == 2048

\* the initial value of the field ChordDetector.sampleRate
DefaultSampleRate == 44100

(***************************************************************************)
(* Template matcher                                                        *)
(***************************************************************************)
\* template.slice(from, to) with 0-based bounds
Slice(t, from, to) == SubSeq(t, from + 1, to)

\* the template rotated the other way: its index-0 weight lands on bin -root
RotateTemplateBackwards(template, root) ==
  Slice(template, root, 12) \o Slice(template, 0, root)

\* [...template.slice(12 - root), ...template.slice(0, 12 - root)]
RotateTemplate(template, root) ==
  Slice(template, 12 - root, 12) \o Slice(template, 0, 12 - root)

\* the sum a loop "for (i = 0; i < 12; i++) sum += f[i]" accumulates
Sum12(f) ==
  f[1] + f[2] + f[3] + f[4] + f[5] + f[6] + f[7] + f[8] + f[9] + f[10]
  + f[11] + f[12]

\* the five sums the loop of calculateCorrelation accumulates, for a vector
\* a = [den, v] and an integer vector b:
\*   sumA = sA / den, sumAB = sAB / den, sumASquared = sAA / den^2
CorrelationSums(a, b) ==
  [sA |-> Sum12(a.v),
   sB |-> Sum12(b),
   sAB |-> Sum12([i \in 1..12 |-> a.v[i] * b[i]]),
   sAA |-> Sum12([i \in 1..12 |-> a.v[i] * a.v[i]]),
   sBB |-> Sum12([i \in 1..12 |-> b[i] * b[i]])]

\* numerator = n * sumAB - sumA * sumB, and the argument of Math.sqrt,
\* (n * sumASquared - sumA^2) * (n * sumBSquared - sumB^2); both NaN when
\* the elements of a are
CorrelationParts(a, b) ==
  LET s == CorrelationSums(a, b)
      n == Len(b)
  IN  IF a.den = 0 THEN [numerator |-> NaN, radicand |-> NaN]
      ELSE [numerator |-> Rat(n * s.sAB - s.sA * s.sB, a.den),
            radicand |-> Rat((n * s.sAA - s.sA * s.sA) * (n * s.sBB - s.sB * s.sB),
                             a.den * a.den)]

\* calculateCorrelation without its "denominator === 0" guard
calculateCorrelationNoGuard(a, b) ==
  LET p == CorrelationParts(a, b)
  IN  SurdDiv(p.numerator, MathSqrt(p.radicand))

\* calculateCorrelation(a, b) for 12-bin vectors (the matcher passes no
\* others, so the length check never throws)
calculateCorrelation(a, b) ==
  LET p == CorrelationParts(a, b)
      denominator == MathSqrt(p.radicand)
  IN  IF ~IsSurdNaN(denominator) /\ denominator.s = 0
      THEN Num2Surd(Int2Num(0))
      ELSE SurdDiv(p.numerator, denominator)

\* the correlation with the template as it is, whatever the root
TemplateCorrelationUnrotated(chroma, root, t) ==
  calculateCorrelation(chroma, chordTemplates[t])

\* the correlation the matcher computes for root and chord type number t
TemplateCorrelation(chroma, root, t) ==
  calculateCorrelation(chroma, RotateTemplate(chordTemplates[t], root))

\* the update test with >= in place of >
IsBetterOrEqual(correlation, bestCorrelation) ==
  SurdGe(correlation, bestCorrelation)

\* the update test "correlation > bestCorrelation"
IsBetter(correlation, bestCorrelation) == SurdGt(correlation, bestCorrelation)

\* the inner loop of findBestMatchingChord for one root: chord types
\* t .. 9 are tried in Object.entries order, best is the best match so far
RECURSIVE ChordTypeLoop(_, _, _, _)
ChordTypeLoop(chroma, root, t, best) ==
  IF t > Len(chordTemplates) THEN best
  ELSE LET correlation == TemplateCorrelation(chroma, root, t)
       IN  IF IsBetter(correlation, best.bestCorrelation)
           THEN ChordTypeLoop(chroma, root, t + 1,
                  [bestCorrelation |-> correlation,
                   bestChordType |-> chordTypes[t], bestRoot |-> root])
           ELSE ChordTypeLoop(chroma, root, t + 1, best)

\* the outer loop: roots root .. 11 in increasing order
RECURSIVE RootLoop(_, _, _)
RootLoop(chroma, root, best) ==
  IF root >= 12 THEN best
  ELSE LET next == ChordTypeLoop(chroma, root, 1, best)
       IN  \* loop invariant: the best root is one of the roots tried
           CASE next.bestRoot <= root -> RootLoop(chroma, root + 1, next)

\* the suffixes with "min" for minor and "min7" for minor7
ChordSuffixSpelled(chordType) ==
  CASE chordType = "major" -> <<>>
    [] chordType = "minor" -> <<"m", "i", "n">>
    [] chordType = "dominant7" -> <<"7">>
    [] chordType = "major7" -> <<"m", "a", "j", "7">>
    [] chordType = "minor7" -> <<"m", "i", "n", "7">>
    [] chordType = "diminished" -> <<"d", "i", "m">>
    [] chordType = "augmented" -> <<"a", "u", "g">>
    [] chordType = "sus2" -> <<"s", "u", "s", "2">>
    [] chordType = "sus4" -> <<"s", "u", "s", "4">>
    [] OTHER -> <<>>

\* the suffix the switch of findBestMatchingChord appends
ChordSuffix(chordType) ==
  CASE chordType = "major" -> <<>>
    [] chordType = "minor" -> <<"m">>
    [] chordType = "dominant7" -> <<"7">>
    [] chordType = "major7" -> <<"m", "a", "j", "7">>
    [] chordType = "minor7" -> <<"m", "7">>
    [] chordType = "diminished" -> <<"d", "i", "m">>
    [] chordType = "augmented" -> <<"a", "u", "g">>
    [] chordType = "sus2" -> <<"s", "u", "s", "2">>
    [] chordType = "sus4" -> <<"s", "u", "s", "4">>
    [] OTHER -> <<>>

\* findBestMatchingChord(chroma): the returned chordName and confidence,
\* with the loop's final bestRoot and bestChordType the name is made from
findBestMatchingChord(chroma) ==
  LET best == RootLoop(chroma, 0,
                [bestCorrelation |-> Num2Surd(Int2Num(-1)),
                 bestChordType |-> "", bestRoot |-> 0])
  IN  [chordName |-> noteNames[best.bestRoot + 1] \o ChordSuffix(best.bestChordType),
       confidence |-> best.bestCorrelation,
       root |-> best.bestRoot,
       chordType |-> best.bestChordType]

(***************************************************************************)
(* Template matcher in binary64                                            *)
(***************************************************************************)
\* the binary64 elements of a vector: element i is the quotient v[i] / den
\* as the division of normalizedChroma rounds it
VectorToDoubles(vec) ==
  [i \in 1..12 |-> DoubleDiv(DoubleOfInt(vec.v[i]), DoubleOfInt(vec.den))]

\* chroma.map(value => value * c) in binary64
ScaleDoubles(a, c) == [i \in 1..12 |-> DoubleMul(a[i], c)]

\* the value a loop "sum = 0; for (i ...) sum += f[i]" leaves in sum
RECURSIVE DoubleSumLoop(_, _, _)
DoubleSumLoop(f, i, sum) ==
  IF i > Len(f) THEN sum
  ELSE LET s == DoubleAdd(sum, f[i])
       IN  CASE s.cls # "" -> DoubleSumLoop(f, i + 1, s)

DoubleSum(f) == DoubleSumLoop(f, 1, DoubleZero)

\* numerator / denominator, or 0 if the denominator is 0
CorrelationQuotient(numerator, denominator) ==
  IF denominator.cls = "zero" THEN DoubleZero ELSE DoubleDiv(numerator, denominator)

\* n * sumXY - sumX * sumY
CorrelationTerm(n, sumXY, sumX, sumY) ==
  DoubleSub(DoubleMul(n, sumXY), DoubleMul(sumX, sumY))

\* the value calculateCorrelation returns for the sums of its loop
CorrelationOfSums(n, sumA, sumB, sumAB, sumASquared, sumBSquared) ==
  CorrelationQuotient(
    CorrelationTerm(n, sumAB, sumA, sumB),
    DoubleSqrt(DoubleMul(CorrelationTerm(n, sumASquared, sumA, sumA),
                         CorrelationTerm(n, sumBSquared, sumB, sumB))))

\* calculateCorrelation(a, b) in binary64, a a vector of numbers and b a
\* rotated template
calculateCorrelationDouble(a, b) ==
  CorrelationOfSums(DoubleOfInt(Len(a)),
                    DoubleSum(a),
                    DoubleSum([i \in 1..12 |-> DoubleOfInt(b[i])]),
                    DoubleSum([i \in 1..12 |-> DoubleMul(a[i], DoubleOfInt(b[i]))]),
                    DoubleSum([i \in 1..12 |-> DoubleMul(a[i], a[i])]),
                    DoubleSum([i \in 1..12 |-> DoubleOfInt(b[i] * b[i])]))

\* the variables of findBestMatchingChord before its loops: root is the
\* root the outer loop is at (12 when the loops are over) and t the
\* number of the chord type the inner loop is at
MatchLoopStart ==
  [root |-> 0, t |-> 1, bestCorrelation |-> DoubleOfInt(-1),
   bestChordType |-> "", bestRoot |-> 0]

\* the variables after an iteration that computed correlation
MatchLoopUpdate(loop, correlation, better, last) ==
  [root |-> IF last THEN loop.root + 1 ELSE loop.root,
   t |-> IF last THEN 1 ELSE loop.t + 1,
   bestCorrelation |-> IF better THEN correlation ELSE loop.bestCorrelation,
   bestChordType |-> IF better THEN chordTypes[loop.t] ELSE loop.bestChordType,
   bestRoot |-> IF better THEN loop.root ELSE loop.bestRoot]

MatchLoopCompare(loop, correlation) ==
  MatchLoopUpdate(loop, correlation, DoubleGt(correlation, loop.bestCorrelation),
                  loop.t = Len(chordTemplates))

\* one iteration of the inner loop of findBestMatchingChord on vector a
MatchLoopStep(a, loop) ==
  MatchLoopCompare(loop,
    calculateCorrelationDouble(a, RotateTemplate(chordTemplates[loop.t], loop.root)))

(***************************************************************************)
(* Frame loop, per-frame detection and post-processing                     *)
(***************************************************************************)
\* the loop condition with < in place of <=
FrameFitsStrictly(start, length) == start + frameSize < length

\* the loop condition testing the frame's first sample only
FrameStartsInside(start, length) == start < length

\* the loop condition of extractChromaFeatures:
\* frameStart + frameSize <= audioData.length
FrameFits(start, length) == start + frameSize <= length

\* the sample indices audioData.slice(frameStart, frameStart + frameSize)
\* reads: first and last
FrameLastIndex(start) == start + frameSize - 1

\* const normalizedChroma = chroma.map(value => value / Math.max(...chroma))
NormalizeChroma(chroma) == VectorDivide(chroma, MathMax(chroma))

\* startTime = (i * hopSize) / this.sampleRate
FrameStartTime(i, hop, rate) == Rat(i * hop, rate)

\* the time at which the samples of frame i end
FrameEndTimeOfSamples(i, hop, rate) == Rat(i * hop + frameSize, rate)

\* endTime = ((i + 1) * hopSize) / this.sampleRate
FrameEndTime(i, hop, rate) == Rat((i + 1) * hop, rate)

\* the candidate detectChordsFromChroma pushes for frame i (from 0)
DetectFrameChord(chroma, i, hop, rate) ==
  LET found == findBestMatchingChord(NormalizeChroma(chroma))
  IN  [chord |-> found.chordName,
       startTime |-> FrameStartTime(i, hop, rate),
       endTime |-> FrameEndTime(i, hop, rate),
       confidence |-> Surd2Real(found.confidence)]

\* (currentChord.confidence + chords[i].confidence) / 2
AverageConfidence(x, y) == RealDivInt(RealAdd(x, y), 2)

\* the merge loop without the push of line 300 that follows it
RECURSIVE MergeLoopDropLast(_, _, _, _)
MergeLoopDropLast(chords, i, current, smoothed) ==
  IF i > Len(chords)
  THEN [chords |-> chords, smoothed |-> smoothed]
  ELSE IF chords[i].chord = chords[current].chord
  THEN MergeLoopDropLast([chords EXCEPT
                            ![current].endTime = chords[i].endTime,
                            ![current].confidence =
                               AverageConfidence(chords[current].confidence,
                                                 chords[i].confidence)],
                         i + 1, current, smoothed)
  ELSE MergeLoopDropLast(chords, i + 1, i, Append(smoothed, current))

\* the merge loop of postProcessChords from index i (from 1) on.  The
\* elements of chords are objects: currentChord and the elements of
\* smoothedChords are references to them, modelled as indices into chords,
\* and extending currentChord changes the element of chords it refers to.
RECURSIVE MergeLoop(_, _, _, _)
MergeLoop(chords, i, current, smoothed) ==
  IF i > Len(chords)
  THEN [chords |-> chords, smoothed |-> Append(smoothed, current)]
  ELSE IF chords[i].chord = chords[current].chord
  THEN MergeLoop([chords EXCEPT
                    ![current].endTime = chords[i].endTime,
                    ![current].confidence =
                       AverageConfidence(chords[current].confidence,
                                         chords[i].confidence)],
                 i + 1, current, smoothed)
  ELSE MergeLoop(chords, i + 1, i, Append(smoothed, current))

\* the filter test with > in place of >=
LongerThan(chord, minimum) ==
  NumGt(NumSub(chord.endTime, chord.startTime), minimum)

\* the filter test (chord.endTime - chord.startTime) >= minDuration
LongEnough(chord, minimum) ==
  NumGe(NumSub(chord.endTime, chord.startTime), minimum)

\* postProcessChords(chords, minDuration): the returned list, the
\* caller's array as the call leaves it, and smoothedChords as the filter
\* got it
postProcessChords(chords, minimum) ==
  IF Len(chords) = 0
  THEN [result |-> <<>>, chords |-> chords, smoothed |-> <<>>]
  ELSE LET m == MergeLoop(chords, 2, 1, <<>>)
           kept == SelectSeq(m.smoothed, LAMBDA k : LongEnough(m.chords[k], minimum))
       IN  [result |-> [k \in 1..Len(kept) |-> m.chords[kept[k]]],
            chords |-> m.chords,
            smoothed |-> [k \in 1..Len(m.smoothed) |-> m.chords[m.smoothed[k]]]]

(***************************************************************************)
(* MidiGenerator: chord names to MIDI note numbers.  A string is the       *)
(* sequence of its characters.                                             *)
(***************************************************************************)
\* the character classes [A-G], [#b] and [a-zA-Z0-9] of the regular
\* expression of chordToNotes
RootLetters == {"A", "B", "C", "D", "E", "F", "G"}

Accidentals == {"#", "b"}

Alphanumerics ==
  {"a", "b", "c", "d", "e", "f", "g", "h", "i", "j", "k", "l", "m",
   "n", "o", "p", "q", "r", "s", "t", "u", "v", "w", "x", "y", "z",
   "A", "B", "C", "D", "E", "F", "G", "H", "I", "J", "K", "L", "M",
   "N", "O", "P", "Q", "R", "S", "T", "U", "V", "W", "X", "Y", "Z",
   "0", "1", "2", "3", "4", "5", "6", "7", "8", "9"}

\* null, what a failed match returns
Null == [null |-> TRUE]

\* chordName.match(/^([A-G][#b]?)([a-zA-Z0-9]*)$/): the two groups, or
\* Null when the name does not match.  The optional accidental is taken
\* when it is there; giving it back never helps the rest to match.
MatchChordName(name) ==
  IF Len(name) = 0 \/ name[1] \notin RootLetters THEN Null
  ELSE LET rootLength == IF Len(name) >= 2 /\ name[2] \in Accidentals
                         THEN 2 ELSE 1
           rest == SubSeq(name, rootLength + 1, Len(name))
       IN  IF \A i \in 1..Len(rest) : rest[i] \in Alphanumerics
           THEN [rootNote |-> SubSeq(name, 1, rootLength), chordType |-> rest]
           ELSE Null

\* the first position at which pattern occurs in string, 0 if nowhere
StringIndexOf(string, pattern) ==
  LET hits == {i \in 1..(Len(string) - Len(pattern) + 1) :
                 SubSeq(string, i, i + Len(pattern) - 1) = pattern}
  IN  IF hits = {} THEN 0 ELSE CHOOSE i \in hits : \A j \in hits : i <= j

\* string.replace(pattern, replacement) with a string pattern: the first
\* occurrence is replaced
StringReplace(string, pattern, replacement) ==
  LET at == StringIndexOf(string, pattern)
  IN  IF at = 0 THEN string
      ELSE SubSeq(string, 1, at - 1) \o replacement
           \o SubSeq(string, at + Len(pattern), Len(string))

\* array.indexOf(element), from 0, -1 if it is not there
ArrayIndexOf(array, element) ==
  IF \E i \in 1..Len(array) : array[i] = element
  THEN (CHOOSE i \in 1..Len(array) :
          array[i] = element /\ \A j \in 1..(i - 1) : array[j] # element) - 1
  ELSE -1

\* const noteNames of noteToMidiNumber
MidiNoteNames ==
  << <<"C">>, <<"C", "#">>, <<"D">>, <<"D", "#">>, <<"E">>, <<"F">>,
     <<"F", "#">>, <<"G">>, <<"G", "#">>, <<"A">>, <<"A", "#">>, <<"B">> >>

\* the default of the parameter octave of noteToMidiNumber
DefaultOctave == 4

\* "Handle flat notes": replace('b', '#'), then the five replacements of
\* a flat by its enharmonic sharp, in the order of the code
HandleFlatNotes(noteName) ==
  StringReplace(
    StringReplace(
      StringReplace(
        StringReplace(
          StringReplace(
            StringReplace(noteName, <<"b">>, <<"#">>),
            <<"D", "b">>, <<"C", "#">>),
          <<"E", "b">>, <<"D", "#">>),
        <<"G", "b">>, <<"F", "#">>),
      <<"A", "b">>, <<"G", "#">>),
    <<"B", "b">>, <<"A", "#">>)

\* noteToMidiNumber(noteName, octave)
noteToMidiNumber(noteName, octave) ==
  LET noteIndex == ArrayIndexOf(MidiNoteNames, HandleFlatNotes(noteName))
  IN  IF noteIndex = -1 THEN 60 ELSE 12 * (octave + 1) + noteIndex

\* the switch with every case taken as the default
ChordIntervalsMajor(chordType) == <<0, 4, 7>>

\* the switch of chordToNotes on chordType
ChordIntervals(chordType) ==
  CASE chordType = <<>> -> <<0, 4, 7>>
    [] chordType = <<"m">> -> <<0, 3, 7>>
    [] chordType = <<"7">> -> <<0, 4, 7, 10>>
    [] chordType = <<"m", "a", "j", "7">> -> <<0, 4, 7, 11>>
    [] chordType = <<"m", "7">> -> <<0, 3, 7, 10>>
    [] chordType = <<"d", "i", "m">> -> <<0, 3, 6>>
    [] chordType = <<"a", "u", "g">> -> <<0, 4, 8>>
    [] chordType = <<"s", "u", "s", "2">> -> <<0, 2, 7>>
    [] chordType = <<"s", "u", "s", "4">> -> <<0, 5, 7>>
    [] OTHER -> <<0, 4, 7>>

\* intervals.map(interval => rootNoteNumber + interval)
AddIntervals(rootNoteNumber, intervals) ==
  [i \in 1..Len(intervals) |-> rootNoteNumber + intervals[i]]

\* chordToNotes(chordName)
chordToNotes(name) ==
  IF MatchChordName(name) = Null THEN <<>>
  ELSE AddIntervals(noteToMidiNumber(MatchChordName(name).rootNote, DefaultOctave),
                    ChordIntervals(MatchChordName(name).chordType))

(***************************************************************************)
(* MidiGenerator: the tracks.  A track is the list of the notes given to   *)
(* track.addNote, in the order of the calls.                               *)
(***************************************************************************)
\* Math.min(x, y) and Math.floor(x)
MathMin(x, y) ==
  IF IsNaN(x) \/ IsNaN(y) THEN NaN ELSE IF NumLt(y, x) THEN y ELSE x

MathFloor(x) == IF IsNaN(x) THEN NaN ELSE Int2Num(x[1] \div x[2])

\* the velocities of the three addNote calls of MidiGenerator
ChordVelocity == Rat(4, 5)

MelodyChordVelocity == Rat(3, 5)

MelodyVelocity == Rat(4, 5)

\* the duration of the chord's notes taken as its end time
NoteDurationToEnd(chord) == chord.endTime

\* const duration = chord.endTime - chord.startTime
NoteDuration(chord) == NumSub(chord.endTime, chord.startTime)

\* the notes the loop "for (const note of notes)" adds for one chord
ChordNotes(chord, velocity) ==
  [i \in 1..Len(chordToNotes(chord.chord)) |->
     [midi |-> chordToNotes(chord.chord)[i],
      time |-> chord.startTime,
      duration |-> NoteDuration(chord),
      velocity |-> velocity]]

\* the loop "for (const chord of chords)" of generateMidiFromChords and the
\* same loop of generateMidiWithMelody, for the chords track, from chord k
RECURSIVE ChordTrack(_, _, _)
ChordTrack(chords, k, velocity) ==
  IF k > Len(chords) THEN <<>>
  ELSE ChordNotes(chords[k], velocity) \o ChordTrack(chords, k + 1, velocity)

\* MidiGenerator.generateMidiFromChords(chords): the notes of its track
generateMidiFromChords(chords) == ChordTrack(chords, 1, ChordVelocity)

\* the sub-beat without the cap of a quarter of a second
SubBeatUncapped(duration, length) == NumDiv(duration, Int2Num(length))

\* const noteDuration = Math.min(0.25, duration / notes.length), for a
\* duration >= 0: with no notes and a positive duration the quotient is
\* +Infinity and the minimum 0.25; 0 / 0 is NaN
SubBeat(duration, length) ==
  IF length = 0 /\ NumGt(duration, Int2Num(0)) THEN Rat(1, 4)
  ELSE MathMin(Rat(1, 4), NumDiv(duration, Int2Num(length)))

\* the number of iterations of the loop with the condition
\* i <= Math.floor(duration / noteDuration)
MelodyCountInclusive(duration, noteDuration) ==
  IF IsNaN(NumDiv(duration, noteDuration))
     \/ NumLt(NumDiv(duration, noteDuration), Int2Num(0))
  THEN 0
  ELSE MathFloor(NumDiv(duration, noteDuration))[1] + 1

\* the number of iterations of "for (let i = 0; i < Math.floor(duration /
\* noteDuration); i++)": none when the bound is NaN
MelodyCount(duration, noteDuration) ==
  IF IsNaN(NumDiv(duration, noteDuration))
     \/ NumLt(NumDiv(duration, noteDuration), Int2Num(0))
  THEN 0
  ELSE MathFloor(NumDiv(duration, noteDuration))[1]

\* notes[noteIndex] + 12 with noteIndex = i % notes.length: NaN when the
\* chord has no notes (undefined + 12)
MelodyPitch(pitches, i) ==
  IF Len(pitches) = 0 THEN NaN
  ELSE Int2Num(pitches[(i % Len(pitches)) + 1] + 12)

\* the notes the arpeggio loop adds for one chord
MelodyNotes(chord) ==
  [j \in 1..MelodyCount(NoteDuration(chord),
                         SubBeat(NoteDuration(chord),
                                 Len(chordToNotes(chord.chord)))) |->
     [midi |-> MelodyPitch(chordToNotes(chord.chord), j - 1),
      time |-> NumAdd(chord.startTime,
                      NumMul(Int2Num(j - 1),
                             SubBeat(NoteDuration(chord),
                                     Len(chordToNotes(chord.chord))))),
      duration |-> NumMul(SubBeat(NoteDuration(chord),
                                  Len(chordToNotes(chord.chord))),
                          Rat(4, 5)),
      velocity |-> MelodyVelocity]]

\* the loop of generateMidiWithMelody for the melody track, from chord k
RECURSIVE MelodyTrack(_, _)
MelodyTrack(chords, k) ==
  IF k > Len(chords) THEN <<>>
  ELSE MelodyNotes(chords[k]) \o MelodyTrack(chords, k + 1)

\* generateMidiWithMelody(chords): the notes of its two tracks
generateMidiWithMelody(chords) ==
  [chords |-> ChordTrack(chords, 1, MelodyChordVelocity),
   melody |-> MelodyTrack(chords, 1)]

(***************************************************************************)
(* midiUtils: generateMidiFromChords                                       *)
(***************************************************************************)
\* const chordQualityIntervals: pairs <<key, intervals>>
chordQualityIntervals ==
  {<<<<"m", "a", "j">>, <<0, 4, 7>>>>,
   <<<<>>, <<0, 4, 7>>>>,
   <<<<"M">>, <<0, 4, 7>>>>,
   <<<<"m", "i", "n">>, <<0, 3, 7>>>>,
   <<<<"m">>, <<0, 3, 7>>>>,
   <<<<"7">>, <<0, 4, 7, 10>>>>,
   <<<<"d", "o", "m", "7">>, <<0, 4, 7, 10>>>>,
   <<<<"m", "a", "j", "7">>, <<0, 4, 7, 11>>>>,
   <<<<"M", "7">>, <<0, 4, 7, 11>>>>,
   <<<<"m", "i", "n", "7">>, <<0, 3, 7, 10>>>>,
   <<<<"m", "7">>, <<0, 3, 7, 10>>>>,
   <<<<"d", "i", "m">>, <<0, 3, 6>>>>,
   <<<<"a", "u", "g">>, <<0, 4, 8>>>>,
   <<<<"s", "u", "s", "4">>, <<0, 5, 7>>>>,
   <<<<"s", "u", "s", "2">>, <<0, 2, 7>>>>}

\* names of properties every object inherits from Object.prototype
InheritedProperties ==
  {<<"c", "o", "n", "s", "t", "r", "u", "c", "t", "o", "r">>,
   <<"t", "o", "S", "t", "r", "i", "n", "g">>,
   <<"v", "a", "l", "u", "e", "O", "f">>}

\* the lookup with the major intervals for a quality that is not there
QualityLookupOrMajor(quality) ==
  IF \E entry \in chordQualityIntervals : entry[1] = quality
  THEN [kind |-> "intervals",
        intervals |-> (CHOOSE entry \in chordQualityIntervals :
                         entry[1] = quality)[2]]
  ELSE [kind |-> "intervals", intervals |-> <<0, 4, 7>>]

\* chordQualityIntervals[quality]: the intervals of an own key, an
\* inherited property (a function, which is truthy and has no forEach),
\* or undefined
QualityLookup(quality) ==
  IF \E entry \in chordQualityIntervals : entry[1] = quality
  THEN [kind |-> "intervals",
        intervals |-> (CHOOSE entry \in chordQualityIntervals :
                         entry[1] = quality)[2]]
  ELSE IF quality \in InheritedProperties THEN [kind |-> "inherited"]
  ELSE [kind |-> "undefined"]

\* parseChordName(chordName): /^([A-G][#b]?)(.*)$/ on a name without line
\* breaks
parseChordName(name) ==
  IF Len(name) = 0 \/ name[1] \notin RootLetters THEN Null
  ELSE IF Len(name) >= 2 /\ name[2] \in Accidentals
  THEN [root |-> SubSeq(name, 1, 2), quality |-> SubSeq(name, 3, Len(name))]
  ELSE [root |-> SubSeq(name, 1, 1), quality |-> SubSeq(name, 2, Len(name))]

\* the scale index Tone.js gives a note letter, and the value of a digit
ScaleIndex(letter) ==
  CASE letter = "C" -> 0 [] letter = "D" -> 2 [] letter = "E" -> 4
    [] letter = "F" -> 5 [] letter = "G" -> 7 [] letter = "A" -> 9
    [] letter = "B" -> 11

DigitValue(digit) ==
  ArrayIndexOf(<<"0", "1", "2", "3", "4", "5", "6", "7", "8", "9">>, digit)

\* noteNameToMidi(noteName) for a root followed by one digit:
\* Tone.Frequency(noteName).toMidi() is the scale index of the letter, one
\* more for a sharp and one less for a flat, plus 12 * (octave + 1)
noteNameToMidi(noteName) ==
  ScaleIndex(noteName[1])
  + (IF Len(noteName) = 3 THEN IF noteName[2] = "#" THEN 1 ELSE -1 ELSE 0)
  + 12 * (DigitValue(noteName[Len(noteName)]) + 1)

\* the body of chords.forEach for one chord: the notes it adds and
\* whether it threw (intervals.forEach on a function is a TypeError)
ChordResultNotes(chordInfo) ==
  IF parseChordName(chordInfo.chord) = Null THEN [notes |-> <<>>, threw |-> FALSE]
  ELSE IF QualityLookup(parseChordName(chordInfo.chord).quality).kind = "undefined"
  THEN [notes |-> <<>>, threw |-> FALSE]
  ELSE IF QualityLookup(parseChordName(chordInfo.chord).quality).kind = "inherited"
  THEN [notes |-> <<>>, threw |-> TRUE]
  ELSE [notes |->
          SelectSeq(
            AddIntervals(
              noteNameToMidi(parseChordName(chordInfo.chord).root \o <<"4">>),
              QualityLookup(parseChordName(chordInfo.chord).quality).intervals),
            LAMBDA noteMidi : noteMidi >= 0 /\ noteMidi <= 127),
        threw |-> FALSE]

\* a note of the track of midiUtils
ChordResultNote(chordInfo, noteMidi) ==
  [midi |-> noteMidi,
   time |-> chordInfo.start,
   duration |-> NumSub(chordInfo.end, chordInfo.start),
   velocity |-> Rat(4, 5)]

\* chords.forEach from chord k on, with the notes added so far
RECURSIVE ChordResultLoop(_, _, _)
ChordResultLoop(chords, k, track) ==
  IF k > Len(chords) THEN [chords |-> track, threw |-> FALSE]
  ELSE IF ChordResultNotes(chords[k]).threw
  THEN [chords |-> track, threw |-> TRUE]
  ELSE ChordResultLoop(chords, k + 1,
         track \o [i \in 1..Len(ChordResultNotes(chords[k]).notes) |->
                     ChordResultNote(chords[k],
                                     ChordResultNotes(chords[k]).notes[i])])

\* generateMidiFromChords(chords) of midiUtils: the notes of its track, and
\* whether the call threw
midiUtilsGenerateMidiFromChords(chords) == ChordResultLoop(chords, 1, <<>>)

\* a ChordWithTiming as a ChordResult
ChordResult(chord) ==
  [chord |-> chord.chord, start |-> chord.startTime, end |-> chord.endTime]

(***************************************************************************)
(* Inputs                                                                  *)
(***************************************************************************)
\* buffer lengths around the frame boundaries, for 0 .. MaxFrames frames
AudioLengths ==
  {0} \cup {frameSize + k * hopSize + d : k \in (-1)..(MaxFrames - 1), d \in {-1, 0}}

SampleRates == {44100, 48000}

\* 0, the duration of one hop at 44100 Hz, and the default 0.5 s
MinDurations == {Int2Num(0), Rat(hopSize, 44100), Rat(1, 2)}

\* the 12-bin vector with energy e[b] in the bins b of DOMAIN e (from 0)
Chroma(e) == IntVector([i \in 1..12 |-> IF i - 1 \in DOMAIN e THEN e[i - 1] ELSE 0])

ZeroChroma == IntVector([i \in 1..12 |-> 0])

\* HPCP vectors a frame may have: silence, C major, C major with a strong
\* root, A minor
ChromaPool ==
  {ZeroChroma,
   Chroma(0 :> 1 @@ 4 :> 1 @@ 7 :> 1),
   Chroma(0 :> 2 @@ 4 :> 1 @@ 7 :> 1),
   Chroma(9 :> 1 @@ 0 :> 1 @@ 4 :> 1)}

\* the candidate detectChordsFromChroma pushes for each vector of a set
\* as frame 0 at the default rate: a list of pairs <<vector, candidate>>
RECURSIVE FrameCandidates(_)
FrameCandidates(pool) ==
  IF pool = {} THEN <<>>
  ELSE LET hpcp == CHOOSE x \in pool : TRUE
       IN  Append(FrameCandidates(pool \ {hpcp}),
                  <<hpcp, DetectFrameChord(hpcp, 0, hopSize, DefaultSampleRate)>>)

\* the candidate it pushes for the vector as frame i (from 0) at a rate,
\* given the list of pairs
PoolCandidate(detected, hpcp, i, rate) ==
  LET k == CHOOSE j \in 1..Len(detected) : detected[j][1] = hpcp
  IN  [detected[k][2]
         EXCEPT !.startTime = FrameStartTime(i, hopSize, rate),
                !.endTime = FrameEndTime(i, hopSize, rate)]

\* the chroma sequences postProcessChords alone is tried on
FeatureLists == UNION {[1..n -> ChromaPool] : n \in 0..MaxCandidates}

\* 0, one hop and two hops at 44100 Hz, and the default 0.5 s
PostMinDurations ==
  {Int2Num(0), Rat(hopSize, 44100), Rat(2 * hopSize, 44100), Rat(1, 2)}

\* the energies the matcher is tried on: at most MaxNotes sounding notes,
\* the lowest with energy 1 .. MaxEnergy and the others with energy 1, and
\* the constant vectors
NoteSets == {S \in SUBSET (0..11) : Cardinality(S) <= MaxNotes}

Lowest(S) == CHOOSE b \in S : \A c \in S : b <= c

TestEnergies ==
  {IntVector([i \in 1..12 |-> IF i - 1 \notin S THEN 0
                               ELSE IF i - 1 = Lowest(S) THEN e ELSE 1]) :
     S \in NoteSets \ {{}}, e \in 1..MaxEnergy}
  \cup {IntVector([i \in 1..12 |-> e]) : e \in 1..MaxEnergy}

\* the vectors the matcher is tried on: the all-zero vector and the
\* normalized chroma vectors of the energies above
TestVectors == {ZeroChroma} \cup {NormalizeChroma(e) : e \in TestEnergies}

\* those in which bin 0 sounds: one vector of each orbit under rotation
TestVectorsFromC == {vec \in TestVectors : vec = ZeroChroma \/ vec.v[1] > 0}

\* vec * c and vec rotated by k bins (bin b moves to bin (b + k) mod 12)
ScaleVector(vec, c) == [den |-> vec.den, v |-> [i \in 1..12 |-> c * vec.v[i]]]

RotateVector(vec, k) ==
  [den |-> vec.den, v |-> [i \in 1..12 |-> vec.v[((i - 1 - k) % 12) + 1]]]

\* the energies the binary64 matcher is tried on: a C major triad, and
\* the notes C, Eb, Gb, A with Eb and Gb twice as strong as C and A
DoubleEnergies ==
  {Chroma(0 :> 1 @@ 4 :> 1 @@ 7 :> 1),
   Chroma(0 :> 1 @@ 3 :> 2 @@ 6 :> 2 @@ 9 :> 1)}

\* the positive constants <<n, d>>, that is n / d, a vector is multiplied
\* by in binary64: 2 and 0.7
DoubleScales == {<<2, 1>>, <<7, 10>>}

\* the chord names chordToNotes is tried on: a root, natural, sharp or
\* flat, followed by one of the nine suffixes of the detector, by another
\* alphanumeric suffix or by a bass note after a slash; and three names
\* without a root
MidiRoots ==
  {<<l>> : l \in RootLetters}
  \cup {<<l, a>> : l \in RootLetters, a \in Accidentals}

KnownSuffixes == {ChordSuffix(chordTypes[i]) : i \in 1..Len(chordTypes)}

UnknownSuffixes ==
  {<<"9">>, <<"m", "i", "n">>, <<"M", "7">>, <<"a", "d", "d", "9">>}

SlashSuffixes == {<<"/", "E">>}

RootlessNames == {<<>>, <<"N">>, <<"H", "m">>}

MidiNames ==
  {root \o suffix :
     root \in MidiRoots,
     suffix \in KnownSuffixes \cup UnknownSuffixes \cup SlashSuffixes}
  \cup RootlessNames

\* the segments the MIDI generators are tried on: up to MaxSegments
\* segments, the first from time 0 and each from the end of the one before,
\* of these names and durations (in seconds)
SegmentNames ==
  {<<"C">>, <<"G", "7">>, <<"B", "b">>,
   <<"C", "m", "i", "n">>, <<"C", "9">>, <<"C", "/", "E">>, <<"N">>,
   <<"C", "c", "o", "n", "s", "t", "r", "u", "c", "t", "o", "r">>}

SegmentDurations == {Rat(1, 2), Rat(9, 10), Int2Num(1)}

RECURSIVE SegmentsFrom(_, _, _)
SegmentsFrom(start, names, durations) ==
  IF Len(names) = 0 THEN <<>>
  ELSE <<[chord |-> names[1],
          startTime |-> start,
          endTime |-> NumAdd(start, durations[1])]>>
       \o SegmentsFrom(NumAdd(start, durations[1]), Tail(names), Tail(durations))

SegmentLists ==
  UNION {{SegmentsFrom(Int2Num(0), names, durations) :
            names \in [1..n -> SegmentNames],
            durations \in [1..n -> SegmentDurations]} : n \in 1..MaxSegments}

(***************************************************************************)
(* State                                                                   *)
(***************************************************************************)
VARIABLES
  initialized,     \* ChordDetector.initialized
  sampleRate,      \* ChordDetector.sampleRate
  pc,              \* where the detectChords call is
  audioLength,     \* audioData.length of the call's buffer
  bufferRate,      \* audioBuffer.sampleRate of the call's buffer
  minDuration,     \* the minDuration argument
  frameStart,      \* the loop variable of extractChromaFeatures
  frameOffsets,    \* the offsets of the frames analysed so far, in order
  maxIndexRead,    \* the largest sample index read so far, -1 if none
  chromaFeatures,  \* the chroma vectors pushed so far
  rawChords,       \* detectedChords / rawChords
  processedChords, \* what detectChords returns
  error,           \* what the call threw, "none" if nothing
  candidates,      \* the elements of rawChords as postProcessChords got them
  smoothedChords,  \* smoothedChords of postProcessChords
  chroma,          \* matcher alone: the vector it is applied to
  match,           \* matcher alone: findBestMatchingChord(chroma)
  variant,         \* matcher alone: the match of a scaled or rotated chroma
  chordName,       \* chordToNotes alone: its argument
  notes,           \* chordToNotes alone: what it returned
  segments,        \* the chords argument of a MIDI generator
  midi,            \* the tracks the generator filled
  earlier,         \* a completed detectChords call the caller remembers
  extraction,      \* extractChromaFeatures alone: its frameSize and hopSize
  calls,           \* concurrent calls: each detectChords call's arguments, position and result
  pending,         \* concurrent calls: the calls suspended at an await, first first
  request,         \* route: the body of the POST request
  routePc,         \* route: where the POST handler is
  tempAudioPath,   \* route: tempAudioPath, Null until set
  tempDir,         \* route: the temporary directory: none, empty, audio, removed
  invocations,     \* route: the calls of youtubeDl so far
  removals,        \* route: the calls of fs.rm so far
  failed,          \* route: the step that threw, none if none did
  result,          \* route: the response the handler has returned, not yet delivered
  response,        \* route: the response delivered
  processingState, \* Home: 'idle', 'processing', 'complete' or 'error'
  appData,         \* Home: the results shown, or null
  pageError,       \* Home: the error message shown
  pagePlaying,     \* Home: isPlaying
  youtubeUrl,      \* YouTubeForm: the text of the URL field
  isProcessing,    \* YouTubeForm: a submission is in flight
  lastEvent,       \* what the last step of the page was
  playbackMode,    \* Home: 'original' or 'midi'
  midiBase64,      \* MidiPlayer: the MIDI supplied by the parent, or null
  supplied,        \* the MIDI of each run of the load effect, in order
  loading,         \* the runs whose loadMidi awaits Tone.start()
  settled,         \* the runs whose loadMidi has finished, with the outcome
  transportEvents, \* Tone.Transport: the events scheduled
  eventCount,      \* Tone.Transport: event ids handed out
  scheduledEventsRef,\* MidiPlayer: the event ids it keeps
  midiDataRef,     \* MidiPlayer: the parsed MIDI, or null
  durationRef,     \* MidiPlayer: the duration of the MIDI
  isReadyRef,      \* MidiPlayer: ready to play
  reported,        \* the durations passed to onDurationChange
  isPlaying,       \* chord-list MidiPlayer: playing
  currentTime,     \* chord-list MidiPlayer: the time shown
  duration,        \* chord-list MidiPlayer: the end of the last note
  currentChordIndex,\* chord-list MidiPlayer: the chord shown, or -1
  contextState,    \* Tone.context.state: 'suspended' or 'running'
  starting,        \* startPlayback calls awaiting Tone.start()
  transportState,  \* Tone.Transport.state: 'stopped' or 'started'
  transportSeconds,\* Tone.Transport.seconds
  effectPlaying,   \* the isPlaying the Tone effect last ran with
  lastCall         \* the handler that ran last, with its argument

vars ==
  <<initialized, sampleRate, pc, audioLength, bufferRate, minDuration,
    frameStart, frameOffsets, maxIndexRead, chromaFeatures, rawChords,
    processedChords, error, candidates, smoothedChords, chroma, match,
    variant, chordName, notes, segments, midi, earlier, extraction, calls,
    pending, request, routePc, tempAudioPath, tempDir, invocations,
    removals, failed, result, response, processingState, appData,
    pageError, pagePlaying, youtubeUrl, isProcessing, lastEvent,
    playbackMode, midiBase64, supplied, loading, settled, transportEvents,
    eventCount, scheduledEventsRef, midiDataRef, durationRef, isReadyRef,
    reported, isPlaying, currentTime, duration, currentChordIndex,
    contextState, starting, transportState, transportSeconds,
    effectPlaying, lastCall>>

detectorVars == <<initialized, sampleRate>>

callVars ==
  <<pc, audioLength, bufferRate, minDuration, frameStart, frameOffsets,
    maxIndexRead, chromaFeatures, rawChords, processedChords, error,
    candidates, smoothedChords>>

postVars == <<candidates, smoothedChords>>

matcherVars == <<chroma, match, variant>>

midiVars == <<chordName, notes, segments, midi>>

libraryVars == <<detectorVars, callVars, matcherVars, midiVars>>

runVars ==
  <<earlier>>

extractVars ==
  <<extraction>>

concurrentVars ==
  <<calls, pending>>

routeVars ==
  <<request, routePc, tempAudioPath, tempDir, invocations, removals,
    failed, result, response>>

homeVars ==
  <<processingState, appData, pageError, pagePlaying, playbackMode,
    youtubeUrl, isProcessing, lastEvent>>

playerVars ==
  <<midiBase64, supplied, loading, settled, transportEvents, eventCount,
    scheduledEventsRef, midiDataRef, durationRef, isReadyRef, reported,
    isPlaying, currentTime, duration, currentChordIndex, contextState,
    starting, transportState, transportSeconds, effectPlaying, lastCall>>

exceptRunVars ==
  <<extractVars, concurrentVars, routeVars, homeVars, playerVars>>

exceptExtractVars ==
  <<runVars, concurrentVars, routeVars, homeVars, playerVars>>

exceptConcurrentVars ==
  <<runVars, extractVars, routeVars, homeVars, playerVars>>

exceptRouteVars ==
  <<runVars, extractVars, concurrentVars, homeVars, playerVars>>

exceptHomeVars ==
  <<runVars, extractVars, concurrentVars, routeVars, playerVars>>

exceptPlayerVars ==
  <<runVars, extractVars, concurrentVars, routeVars, homeVars>>

appVars ==
  <<runVars, extractVars, concurrentVars, routeVars, homeVars,
    playerVars>>

None == [none |-> TRUE]

RunIdle ==
  /\ earlier = None

ExtractIdle ==
  /\ extraction = None

ConcurrentIdle ==
  /\ calls = None
  /\ pending = None

RouteIdle ==
  /\ request = None
  /\ routePc = None
  /\ tempAudioPath = None
  /\ tempDir = None
  /\ invocations = None
  /\ removals = None
  /\ failed = None
  /\ result = None
  /\ response = None

HomeIdle ==
  /\ processingState = None
  /\ appData = None
  /\ pageError = None
  /\ pagePlaying = None
  /\ playbackMode = None
  /\ youtubeUrl = None
  /\ isProcessing = None
  /\ lastEvent = None

PlayerIdle ==
  /\ midiBase64 = None
  /\ supplied = None
  /\ loading = None
  /\ settled = None
  /\ transportEvents = None
  /\ eventCount = None
  /\ scheduledEventsRef = None
  /\ midiDataRef = None
  /\ durationRef = None
  /\ isReadyRef = None
  /\ reported = None
  /\ isPlaying = None
  /\ currentTime = None
  /\ duration = None
  /\ currentChordIndex = None
  /\ contextState = None
  /\ starting = None
  /\ transportState = None
  /\ transportSeconds = None
  /\ effectPlaying = None
  /\ lastCall = None

IdleExceptRun ==
  /\ ExtractIdle
  /\ ConcurrentIdle
  /\ RouteIdle
  /\ HomeIdle
  /\ PlayerIdle

IdleExceptExtract ==
  /\ RunIdle
  /\ ConcurrentIdle
  /\ RouteIdle
  /\ HomeIdle
  /\ PlayerIdle

IdleExceptConcurrent ==
  /\ RunIdle
  /\ ExtractIdle
  /\ RouteIdle
  /\ HomeIdle
  /\ PlayerIdle

IdleExceptRoute ==
  /\ RunIdle
  /\ ExtractIdle
  /\ ConcurrentIdle
  /\ HomeIdle
  /\ PlayerIdle

IdleExceptHome ==
  /\ RunIdle
  /\ ExtractIdle
  /\ ConcurrentIdle
  /\ RouteIdle
  /\ PlayerIdle

IdleExceptPlayer ==
  /\ RunIdle
  /\ ExtractIdle
  /\ ConcurrentIdle
  /\ RouteIdle
  /\ HomeIdle

\* nothing around the detector and the generators has happened
AppIdle ==
  /\ RunIdle
  /\ ExtractIdle
  /\ ConcurrentIdle
  /\ RouteIdle
  /\ HomeIdle
  /\ PlayerIdle

\* no call in progress
CallIdle ==
  /\ pc = "idle"
  /\ audioLength = 0
  /\ bufferRate = DefaultSampleRate
  /\ minDuration = Int2Num(0)
  /\ frameStart = 0
  /\ frameOffsets = <<>>
  /\ maxIndexRead = -1
  /\ chromaFeatures = <<>>
  /\ rawChords = <<>>
  /\ processedChords = <<>>
  /\ error = "none"
  /\ candidates = <<>>
  /\ smoothedChords = <<>>

\* a new ChordDetector()
DetectorNew ==
  /\ initialized = FALSE
  /\ sampleRate = DefaultSampleRate

MatcherIdle ==
  /\ chroma = None
  /\ match = None
  /\ variant = None

\* no MIDI generator has been called
MidiIdle ==
  /\ chordName = None
  /\ notes = None
  /\ segments = None
  /\ midi = None

(***************************************************************************)
(* detectChords                                                            *)
(***************************************************************************)
\* detectChords(audioBuffer, minDuration) is called.  An initialized
\* detector converts the buffer, stores its sample rate and enters the frame
\* loop; otherwise the call awaits initialize() first.
DetectChords(length, rate, minimum) ==
  /\ pc = "idle"
  /\ audioLength' = length
  /\ bufferRate' = rate
  /\ minDuration' = minimum
  /\ IF initialized
     THEN /\ sampleRate' = rate
          /\ pc' = "extract"
     ELSE /\ sampleRate' = sampleRate
          /\ pc' = "initialize"
  /\ UNCHANGED <<initialized, frameStart, frameOffsets, maxIndexRead,
                 chromaFeatures, rawChords, processedChords, error>>
  /\ UNCHANGED matcherVars
  /\ UNCHANGED midiVars
  /\ UNCHANGED postVars
  /\ UNCHANGED appVars

\* detectChords going on after initialize() without storing the buffer's
\* sample rate
InitializeDoneKeepingRate ==
  /\ pc = "initialize"
  /\ initialized' = TRUE
  /\ pc' = "extract"
  /\ UNCHANGED <<sampleRate, audioLength, bufferRate, minDuration,
                 frameStart, frameOffsets, maxIndexRead, chromaFeatures,
                 rawChords, processedChords, error>>
  /\ UNCHANGED matcherVars
  /\ UNCHANGED midiVars
  /\ UNCHANGED postVars
  /\ UNCHANGED appVars

\* EssentiaWASM() resolves: initialize() returns and detectChords goes on
InitializeDone ==
  /\ pc = "initialize"
  /\ initialized' = TRUE
  /\ sampleRate' = bufferRate
  /\ pc' = "extract"
  /\ UNCHANGED <<audioLength, bufferRate, minDuration, frameStart,
                 frameOffsets, maxIndexRead, chromaFeatures, rawChords,
                 processedChords, error>>
  /\ UNCHANGED matcherVars
  /\ UNCHANGED midiVars
  /\ UNCHANGED postVars
  /\ UNCHANGED appVars

\* EssentiaWASM() rejects: initialize() rethrows and so does detectChords
InitializeFail ==
  /\ pc = "initialize"
  /\ error' = "initialize"
  /\ pc' = "threw"
  /\ UNCHANGED <<initialized, sampleRate, audioLength, bufferRate,
                 minDuration, frameStart, frameOffsets, maxIndexRead,
                 chromaFeatures, rawChords, processedChords>>
  /\ UNCHANGED matcherVars
  /\ UNCHANGED midiVars
  /\ UNCHANGED postVars
  /\ UNCHANGED appVars

\* one iteration of the loop of extractChromaFeatures: the frame at
\* frameStart is sliced, analysed by Essentia (whose HPCP is any vector of
\* the pool) and its chroma vector pushed
ExtractFrame ==
  /\ pc = "extract"
  /\ FrameFits(frameStart, audioLength)
  /\ \E hpcp \in ChromaPool : chromaFeatures' = Append(chromaFeatures, hpcp)
  /\ frameOffsets' = Append(frameOffsets, frameStart)
  /\ maxIndexRead' = IF FrameLastIndex(frameStart) > maxIndexRead
                     THEN FrameLastIndex(frameStart) ELSE maxIndexRead
  /\ frameStart' = frameStart + hopSize
  /\ UNCHANGED <<pc, audioLength, bufferRate, minDuration, rawChords,
                 processedChords, error>>
  /\ UNCHANGED detectorVars
  /\ UNCHANGED matcherVars
  /\ UNCHANGED midiVars
  /\ UNCHANGED postVars
  /\ UNCHANGED appVars

\* the loop of extractChromaFeatures ends and detectChords resumes
ExtractDone ==
  /\ pc = "extract"
  /\ ~FrameFits(frameStart, audioLength)
  /\ pc' = "detect"
  /\ UNCHANGED <<audioLength, bufferRate, minDuration, frameStart,
                 frameOffsets, maxIndexRead, chromaFeatures, rawChords,
                 processedChords, error>>
  /\ UNCHANGED detectorVars
  /\ UNCHANGED matcherVars
  /\ UNCHANGED midiVars
  /\ UNCHANGED postVars
  /\ UNCHANGED appVars

\* one iteration of the loop of detectChordsFromChroma
DetectFrame ==
  /\ pc = "detect"
  /\ Len(rawChords) < Len(chromaFeatures)
  /\ LET i == Len(rawChords)
     IN  rawChords' = Append(rawChords,
                        DetectFrameChord(chromaFeatures[i + 1], i, hopSize, sampleRate))
  /\ UNCHANGED <<pc, audioLength, bufferRate, minDuration, frameStart,
                 frameOffsets, maxIndexRead, chromaFeatures, processedChords,
                 error>>
  /\ UNCHANGED detectorVars
  /\ UNCHANGED matcherVars
  /\ UNCHANGED midiVars
  /\ UNCHANGED postVars
  /\ UNCHANGED appVars

\* detectChordsFromChroma returns; postProcessChords runs and detectChords
\* returns its result
PostProcess ==
  /\ pc = "detect"
  /\ Len(rawChords) = Len(chromaFeatures)
  /\ LET p == postProcessChords(rawChords, minDuration)
     IN  /\ processedChords' = p.result
         /\ rawChords' = p.chords
         /\ smoothedChords' = p.smoothed
  /\ candidates' = rawChords
  /\ pc' = "done"
  /\ UNCHANGED <<audioLength, bufferRate, minDuration, frameStart,
                 frameOffsets, maxIndexRead, chromaFeatures, error>>
  /\ UNCHANGED detectorVars
  /\ UNCHANGED matcherVars
  /\ UNCHANGED midiVars
  /\ UNCHANGED appVars

\* the caller has the result (or the error); the detector is free again
Return ==
  /\ pc \in {"done", "threw"}
  /\ pc' = "idle"
  /\ audioLength' = 0
  /\ bufferRate' = DefaultSampleRate
  /\ minDuration' = Int2Num(0)
  /\ frameStart' = 0
  /\ frameOffsets' = <<>>
  /\ maxIndexRead' = -1
  /\ chromaFeatures' = <<>>
  /\ rawChords' = <<>>
  /\ processedChords' = <<>>
  /\ error' = "none"
  /\ candidates' = <<>>
  /\ smoothedChords' = <<>>
  /\ UNCHANGED detectorVars
  /\ UNCHANGED matcherVars
  /\ UNCHANGED midiVars
  /\ UNCHANGED appVars

Init ==
  /\ DetectorNew
  /\ CallIdle
  /\ MatcherIdle
  /\ MidiIdle
  /\ AppIdle

Next ==
  \/ \E length \in AudioLengths, rate \in SampleRates, minimum \in MinDurations :
       DetectChords(length, rate, minimum)
  \/ InitializeDone
  \/ InitializeFail
  \/ ExtractFrame
  \/ ExtractDone
  \/ DetectFrame
  \/ PostProcess
  \/ Return

Spec == Init /\ [][Next]_vars

(***************************************************************************)
(* The matcher alone, applied to one vector, then to the vector scaled or  *)
(* rotated                                                                 *)
(***************************************************************************)
MatchInit ==
  /\ DetectorNew
  /\ CallIdle
  /\ MidiIdle
  /\ chroma \in TestVectors
  /\ match = None
  /\ variant = None
  /\ AppIdle

MatchFromCInit ==
  /\ DetectorNew
  /\ CallIdle
  /\ MidiIdle
  /\ chroma \in TestVectorsFromC
  /\ match = None
  /\ variant = None
  /\ AppIdle

\* findBestMatchingChord(chroma)
Match ==
  /\ match = None
  /\ match' = findBestMatchingChord(chroma)
  /\ UNCHANGED <<chroma, variant>>
  /\ UNCHANGED detectorVars
  /\ UNCHANGED callVars
  /\ UNCHANGED midiVars
  /\ UNCHANGED appVars

\* findBestMatchingChord(c * chroma)
MatchScaled(c) ==
  /\ match # None
  /\ variant = None
  /\ variant' = [kind |-> "scale", k |-> c,
                 match |-> findBestMatchingChord(ScaleVector(chroma, c))]
  /\ UNCHANGED <<chroma, match>>
  /\ UNCHANGED detectorVars
  /\ UNCHANGED callVars
  /\ UNCHANGED midiVars
  /\ UNCHANGED appVars

\* findBestMatchingChord(chroma rotated by k bins)
MatchRotated(k) ==
  /\ match # None
  /\ variant = None
  /\ variant' = [kind |-> "rotate", k |-> k,
                 match |-> findBestMatchingChord(RotateVector(chroma, k))]
  /\ UNCHANGED <<chroma, match>>
  /\ UNCHANGED detectorVars
  /\ UNCHANGED callVars
  /\ UNCHANGED midiVars
  /\ UNCHANGED appVars

SpecMatch == MatchInit /\ [][Match]_vars

ScaleNext == Match \/ \E c \in 2..MaxScale : MatchScaled(c)

SpecScale == MatchInit /\ [][ScaleNext]_vars

RotateNext == Match \/ \E k \in 0..11 : MatchRotated(k)

SpecRotate == MatchFromCInit /\ [][RotateNext]_vars

(***************************************************************************)
(* The matcher in binary64, one iteration of its loops at a time, applied  *)
(* to a normalized chroma vector and then to a multiple of it              *)
(***************************************************************************)
DoubleInit ==
  /\ DetectorNew
  /\ CallIdle
  /\ MidiIdle
  /\ \E e \in DoubleEnergies :
       /\ chroma = NormalizeChroma(e)
       /\ match = [a |-> VectorToDoubles(NormalizeChroma(e)), loop |-> MatchLoopStart]
  /\ variant = None
  /\ AppIdle

\* one iteration of the loops of findBestMatchingChord(chroma)
DoubleMatchStep ==
  /\ match.loop.root < 12
  /\ match' = [match EXCEPT !.loop = MatchLoopStep(match.a, match.loop)]
  /\ UNCHANGED <<chroma, variant>>
  /\ UNCHANGED detectorVars
  /\ UNCHANGED callVars
  /\ UNCHANGED midiVars
  /\ UNCHANGED appVars

\* findBestMatchingChord(chroma) has returned;
\* findBestMatchingChord(chroma.map(value => value * c)) is called
DoubleScale(c) ==
  /\ match.loop.root = 12
  /\ variant = None
  /\ variant' = [kind |-> "scale", k |-> c,
                 a |-> ScaleDoubles(match.a,
                         DoubleDiv(DoubleOfInt(c[1]), DoubleOfInt(c[2]))),
                 loop |-> MatchLoopStart]
  /\ UNCHANGED <<chroma, match>>
  /\ UNCHANGED detectorVars
  /\ UNCHANGED callVars
  /\ UNCHANGED midiVars
  /\ UNCHANGED appVars

\* one iteration of the loops of the second call
DoubleScaledStep ==
  /\ variant # None
  /\ variant.loop.root < 12
  /\ variant' = [variant EXCEPT !.loop = MatchLoopStep(variant.a, variant.loop)]
  /\ UNCHANGED <<chroma, match>>
  /\ UNCHANGED detectorVars
  /\ UNCHANGED callVars
  /\ UNCHANGED midiVars
  /\ UNCHANGED appVars

DoubleNext ==
  \/ DoubleMatchStep
  \/ \E c \in DoubleScales : DoubleScale(c)
  \/ DoubleScaledStep

SpecDouble == DoubleInit /\ [][DoubleNext]_vars

(***************************************************************************)
(* postProcessChords alone: a call of detectChords on an initialized       *)
(* detector, from the point where detectChordsFromChroma has returned      *)
(***************************************************************************)
PostStart(detected) ==
  /\ initialized = TRUE
  /\ sampleRate = DefaultSampleRate
  /\ bufferRate = DefaultSampleRate
  /\ pc = "detect"
  /\ \E features \in FeatureLists :
       /\ chromaFeatures = features
       /\ audioLength = IF Len(features) = 0 THEN 0
                        ELSE frameSize + (Len(features) - 1) * hopSize
       /\ frameStart = Len(features) * hopSize
       /\ frameOffsets = [i \in 1..Len(features) |-> (i - 1) * hopSize]
       /\ maxIndexRead = IF Len(features) = 0 THEN -1
                         ELSE FrameLastIndex((Len(features) - 1) * hopSize)
       /\ rawChords = [i \in 1..Len(features) |->
                         PoolCandidate(detected, features[i], i - 1,
                                       DefaultSampleRate)]
  /\ minDuration \in PostMinDurations
  /\ processedChords = <<>>
  /\ error = "none"
  /\ candidates = <<>>
  /\ smoothedChords = <<>>
  /\ MatcherIdle
  /\ MidiIdle
  /\ AppIdle

PostInit == PostStart(FrameCandidates(ChromaPool))

SpecPost == PostInit /\ [][PostProcess]_vars

(***************************************************************************)
(* chordToNotes alone                                                      *)
(***************************************************************************)
NotesInit ==
  /\ DetectorNew
  /\ CallIdle
  /\ MatcherIdle
  /\ chordName \in MidiNames
  /\ notes = None
  /\ segments = None
  /\ midi = None
  /\ AppIdle

\* chordToNotes(chordName)
ChordToNotes ==
  /\ notes = None
  /\ notes' = [returned |-> chordToNotes(chordName)]
  /\ UNCHANGED <<chordName, segments, midi>>
  /\ UNCHANGED detectorVars
  /\ UNCHANGED callVars
  /\ UNCHANGED matcherVars
  /\ UNCHANGED appVars

SpecNotes == NotesInit /\ [][ChordToNotes]_vars

(***************************************************************************)
(* The MIDI generators, each applied to one list of segments               *)
(***************************************************************************)
MidiInit ==
  /\ DetectorNew
  /\ CallIdle
  /\ MatcherIdle
  /\ chordName = None
  /\ notes = None
  /\ segments \in SegmentLists
  /\ midi = None
  /\ AppIdle

\* MidiGenerator.generateMidiFromChords(segments)
GenerateMidiFromChords ==
  /\ midi = None
  /\ midi' = [generator |-> "MidiGenerator.generateMidiFromChords",
               chords |-> generateMidiFromChords(segments),
               melody |-> <<>>,
               threw |-> FALSE]
  /\ UNCHANGED <<chordName, notes, segments>>
  /\ UNCHANGED detectorVars
  /\ UNCHANGED callVars
  /\ UNCHANGED matcherVars
  /\ UNCHANGED appVars

\* MidiGenerator.generateMidiWithMelody(segments)
GenerateMidiWithMelody ==
  /\ midi = None
  /\ midi' = [generator |-> "MidiGenerator.generateMidiWithMelody",
               chords |-> generateMidiWithMelody(segments).chords,
               melody |-> generateMidiWithMelody(segments).melody,
               threw |-> FALSE]
  /\ UNCHANGED <<chordName, notes, segments>>
  /\ UNCHANGED detectorVars
  /\ UNCHANGED callVars
  /\ UNCHANGED matcherVars
  /\ UNCHANGED appVars

\* generateMidiFromChords of midiUtils on the same segments
MidiUtilsGenerateMidiFromChords ==
  /\ midi = None
  /\ midi' = [generator |-> "midiUtils.generateMidiFromChords",
               chords |-> midiUtilsGenerateMidiFromChords(
                            [k \in 1..Len(segments) |-> ChordResult(segments[k])]).chords,
               melody |-> <<>>,
               threw |-> midiUtilsGenerateMidiFromChords(
                           [k \in 1..Len(segments) |-> ChordResult(segments[k])]).threw]
  /\ UNCHANGED <<chordName, notes, segments>>
  /\ UNCHANGED detectorVars
  /\ UNCHANGED callVars
  /\ UNCHANGED matcherVars
  /\ UNCHANGED appVars

MidiNext ==
  \/ GenerateMidiFromChords
  \/ GenerateMidiWithMelody
  \/ MidiUtilsGenerateMidiFromChords

SpecMidi == MidiInit /\ [][MidiNext]_vars

(***************************************************************************)
(* Calls of detectChords one after another on one detector, the caller     *)
(* remembering one completed run                                           *)
(***************************************************************************)
\* buffers of one frame and of two frames
RunLengths == {frameSize, frameSize + hopSize}

\* 0 and the duration of one hop at 44100 Hz
RunMinDurations == {Int2Num(0), Rat(hopSize, 44100)}

\* the completed call: the chroma sequence, sample rate and minDuration it
\* ran on, the segments it returns and the notes
\* MidiGenerator.generateMidiFromChords makes of them
Run ==
  [chroma |-> chromaFeatures,
   rate |-> bufferRate,
   minimum |-> minDuration,
   chords |-> processedChords,
   notes |-> generateMidiFromChords(processedChords)]

\* the caller keeps the run that has just completed
Remember ==
  /\ pc = "done"
  /\ earlier = None
  /\ earlier' = Run
  /\ UNCHANGED detectorVars
  /\ UNCHANGED callVars
  /\ UNCHANGED matcherVars
  /\ UNCHANGED midiVars
  /\ UNCHANGED exceptRunVars

RunsNext ==
  \/ \E length \in RunLengths, rate \in SampleRates, minimum \in RunMinDurations :
       DetectChords(length, rate, minimum)
  \/ InitializeDone
  \/ InitializeFail
  \/ ExtractFrame
  \/ ExtractDone
  \/ DetectFrame
  \/ PostProcess
  \/ Return
  \/ Remember

SpecRuns == Init /\ [][RunsNext]_vars

(***************************************************************************)
(* extractChromaFeatures alone, given a frameSize and a hopSize            *)
(***************************************************************************)
\* the index Float32Array.slice makes of an argument: a negative one
\* counts from the end, and the result is kept within 0..length
SliceIndex(index, length) ==
  IF index < 0
  THEN IF length + index < 0 THEN 0 ELSE length + index
  ELSE IF index > length THEN length ELSE index

\* the number of samples of audioData.slice(start, end)
SliceLength(start, end, length) ==
  IF SliceIndex(end, length) > SliceIndex(start, length)
  THEN SliceIndex(end, length) - SliceIndex(start, length)
  ELSE 0

\* the loop condition for a given frame size
GivenFrameFits(start, size, length) == start + size <= length

\* Essentia gets a frame of as many samples as the window it asks for
WholeFrame(start, size, length) ==
  size > 0 /\ SliceLength(start, start + size, length) = size

ExtractFrameSizes == {0 - frameSize, 0, frameSize}

ExtractHopSizes == {0 - hopSize, 0, hopSize, frameSize, 2 * frameSize}

ExtractLengths == {0, frameSize, 2 * frameSize}

ExtractInit ==
  /\ initialized = TRUE
  /\ sampleRate = DefaultSampleRate
  /\ pc = "extract"
  /\ audioLength \in ExtractLengths
  /\ bufferRate = DefaultSampleRate
  /\ minDuration = Int2Num(0)
  /\ frameStart = 0
  /\ frameOffsets = <<>>
  /\ maxIndexRead = -1
  /\ chromaFeatures = <<>>
  /\ rawChords = <<>>
  /\ processedChords = <<>>
  /\ error = "none"
  /\ candidates = <<>>
  /\ smoothedChords = <<>>
  /\ MatcherIdle
  /\ MidiIdle
  /\ extraction \in [frameSize : ExtractFrameSizes, hopSize : ExtractHopSizes]
  /\ IdleExceptExtract

\* one iteration of the loop of extractChromaFeatures(audioData, frameSize,
\* hopSize): the frame is sliced, Essentia analyses it and its vector is
\* pushed.  What Essentia does with a frame that is not a whole window is
\* not known: it returns a vector or (below) throws.  The model follows
\* the loop for MaxFrames iterations.
ExtractGivenFrame ==
  /\ pc = "extract"
  /\ extraction # None
  /\ GivenFrameFits(frameStart, extraction.frameSize, audioLength)
  /\ Len(chromaFeatures) < MaxFrames
  /\ \E hpcp \in ChromaPool : chromaFeatures' = Append(chromaFeatures, hpcp)
  /\ frameOffsets' = Append(frameOffsets, frameStart)
  /\ maxIndexRead' =
       IF /\ SliceLength(frameStart, frameStart + extraction.frameSize,
                         audioLength) > 0
          /\ SliceIndex(frameStart + extraction.frameSize, audioLength) - 1
               > maxIndexRead
       THEN SliceIndex(frameStart + extraction.frameSize, audioLength) - 1
       ELSE maxIndexRead
  /\ frameStart' = frameStart + extraction.hopSize
  /\ UNCHANGED <<pc, audioLength, bufferRate, minDuration, rawChords,
                 processedChords, error>>
  /\ UNCHANGED detectorVars
  /\ UNCHANGED matcherVars
  /\ UNCHANGED midiVars
  /\ UNCHANGED postVars
  /\ UNCHANGED appVars

\* Essentia throws on a frame that is not a whole window
ExtractGivenThrows ==
  /\ pc = "extract"
  /\ extraction # None
  /\ GivenFrameFits(frameStart, extraction.frameSize, audioLength)
  /\ Len(chromaFeatures) < MaxFrames
  /\ ~WholeFrame(frameStart, extraction.frameSize, audioLength)
  /\ error' = "essentia"
  /\ pc' = "threw"
  /\ UNCHANGED <<audioLength, bufferRate, minDuration, frameStart,
                 frameOffsets, maxIndexRead, chromaFeatures, rawChords,
                 processedChords>>
  /\ UNCHANGED detectorVars
  /\ UNCHANGED matcherVars
  /\ UNCHANGED midiVars
  /\ UNCHANGED postVars
  /\ UNCHANGED appVars

\* the loop ends and extractChromaFeatures returns chromaFeatures
ExtractGivenDone ==
  /\ pc = "extract"
  /\ extraction # None
  /\ ~GivenFrameFits(frameStart, extraction.frameSize, audioLength)
  /\ pc' = "extracted"
  /\ UNCHANGED <<audioLength, bufferRate, minDuration, frameStart,
                 frameOffsets, maxIndexRead, chromaFeatures, rawChords,
                 processedChords, error>>
  /\ UNCHANGED detectorVars
  /\ UNCHANGED matcherVars
  /\ UNCHANGED midiVars
  /\ UNCHANGED postVars
  /\ UNCHANGED appVars

ExtractNext ==
  \/ ExtractGivenFrame
  \/ ExtractGivenThrows
  \/ ExtractGivenDone

SpecExtract == ExtractInit /\ [][ExtractNext]_vars

(***************************************************************************)
(* Two detectChords calls in flight on one initialized detector            *)
(***************************************************************************)
CallIds == {1, 2}

\* the HPCP vectors of the frames of a concurrent call: C major, A minor
ConcurrentPool ==
  {Chroma(0 :> 1 @@ 4 :> 1 @@ 7 :> 1), Chroma(9 :> 1 @@ 0 :> 1 @@ 4 :> 1)}

\* the chroma sequences of buffers of one frame and of two frames
ConcurrentFeatures == UNION {[1..n -> ConcurrentPool] : n \in 1..2}

NotCalled ==
  [pc |-> "idle", rate |-> DefaultSampleRate, minimum |-> Int2Num(0),
   chroma |-> <<>>, result |-> <<>>]

ConcurrentInit ==
  /\ initialized = TRUE
  /\ sampleRate = DefaultSampleRate
  /\ CallIdle
  /\ MatcherIdle
  /\ MidiIdle
  /\ IdleExceptConcurrent
  /\ calls = [c \in CallIds |-> NotCalled]
  /\ pending = <<>>

\* detectChordsFromChroma(chromaFeatures, hopSize) with the detector's
\* sample rate as it is when the loop runs
detectChordsFromChroma(features, hop, rate) ==
  [i \in 1..Len(features) |-> DetectFrameChord(features[i], i - 1, hop, rate)]

\* call c of detectChords up to its await: the detector is initialized,
\* so the call converts the buffer, stores its sample rate in the
\* detector, runs extractChromaFeatures (which has no await of its own)
\* to its end and is suspended at "await this.extractChromaFeatures(...)"
ConcurrentDetectChords(c, rate, minimum, features) ==
  /\ initialized
  /\ calls[c].pc = "idle"
  /\ sampleRate' = rate
  /\ calls' = [calls EXCEPT ![c] =
                 [pc |-> "await", rate |-> rate, minimum |-> minimum,
                  chroma |-> features, result |-> <<>>]]
  /\ pending' = Append(pending, c)
  /\ UNCHANGED initialized
  /\ UNCHANGED callVars
  /\ UNCHANGED matcherVars
  /\ UNCHANGED midiVars
  /\ UNCHANGED exceptConcurrentVars

\* the call suspended first is resumed: detectChordsFromChroma and
\* postProcessChords run and the call returns
ConcurrentResume ==
  /\ pending # <<>>
  /\ calls' = [calls EXCEPT ![Head(pending)] =
       [@ EXCEPT
          !.pc = "done",
          !.result =
             postProcessChords(
               detectChordsFromChroma(calls[Head(pending)].chroma, hopSize,
                                      sampleRate),
               calls[Head(pending)].minimum).result]]
  /\ pending' = Tail(pending)
  /\ UNCHANGED detectorVars
  /\ UNCHANGED callVars
  /\ UNCHANGED matcherVars
  /\ UNCHANGED midiVars
  /\ UNCHANGED exceptConcurrentVars

ConcurrentNext ==
  \/ \E c \in CallIds, rate \in SampleRates, minimum \in RunMinDurations,
        features \in ConcurrentFeatures :
       ConcurrentDetectChords(c, rate, minimum, features)
  \/ ConcurrentResume

SpecConcurrent == ConcurrentInit /\ [][ConcurrentNext]_vars

(***************************************************************************)
(* The matcher's label handed to chordToNotes                              *)
(***************************************************************************)
\* the chroma vectors that are a template at a root
LabelVectors ==
  {IntVector(RotateTemplate(chordTemplates[t], root)) :
     t \in 1..Len(chordTypes), root \in 0..11}

LabelInit ==
  /\ DetectorNew
  /\ CallIdle
  /\ MidiIdle
  /\ chroma \in LabelVectors
  /\ match = None
  /\ variant = None
  /\ AppIdle

\* MidiGenerator.chordToNotes(chord.chord) on the chordName of the match
SynthesizeLabel ==
  /\ match # None
  /\ notes = None
  /\ chordName' = match.chordName
  /\ notes' = [returned |-> chordToNotes(match.chordName)]
  /\ UNCHANGED <<segments, midi>>
  /\ UNCHANGED detectorVars
  /\ UNCHANGED callVars
  /\ UNCHANGED matcherVars
  /\ UNCHANGED appVars

LabelNext ==
  \/ Match
  \/ SynthesizeLabel

SpecLabels == LabelInit /\ [][LabelNext]_vars

(***************************************************************************)
(* POST /api/youtube-audio                                                 *)
(***************************************************************************)
\* string starts with prefix
StartsWith(string, prefix) ==
  /\ Len(string) >= Len(prefix)
  /\ SubSeq(string, 1, Len(prefix)) = prefix

\* the beginnings /^(https?:\/\/)?(www\.)?(youtube\.com|youtu\.?be)\// can
\* match
YoutubePrefixes ==
  {scheme \o www \o host \o <<"/">> :
     scheme \in {<<>>, <<"h", "t", "t", "p", ":", "/", "/">>, <<"h", "t", "t", "p", "s", ":", "/", "/">>},
     www \in {<<>>, <<"w", "w", "w", ".">>},
     host \in {<<"y", "o", "u", "t", "u", "b", "e", ".", "c", "o", "m">>, <<"y", "o", "u", "t", "u", "b", "e">>, <<"y", "o", "u", "t", "u", ".", "b", "e">>}}

\* isValidYoutubeUrl(url): one of the beginnings and then .+, one
\* character or more
isValidYoutubeUrl(url) ==
  \E prefix \in YoutubePrefixes :
    StartsWith(url, prefix) /\ Len(url) > Len(prefix)

\* values of body.youtubeUrl: absent, a number, and strings
Undefined == [type |-> "undefined"]

UrlValues ==
  {Undefined, [type |-> "number", value |-> 42]}
  \cup {[type |-> "string", value |-> text] :
          text \in {<<>>, <<"y", "o", "u", "t", "u", ".", "b", "e", "/", "x">>, <<"h", "t", "t", "p", "s", ":", "/", "/", "w", "w", "w", ".", "y", "o", "u", "t", "u", "b", "e", ".", "c", "o", "m", "/", "w">>, <<"h", "t", "t", "p", ":", "/", "/", "y", "o", "u", "t", "u", "b", "e", "/", "a">>, <<"y", "o", "u", "t", "u", "b", "e", ".", "c", "o", "m", "/">>, <<"h", "t", "t", "p", "s", ":", "/", "/", "v", "i", "m", "e", "o", ".", "c", "o", "m", "/", "1">>, <<"x", "y", "o", "u", "t", "u", ".", "b", "e", "/", "x">>}}

\* request bodies: one req.json() rejects (no body, not JSON), the JSON
\* null, JSON strings and numbers, and objects with or without youtubeUrl
RequestBodies ==
  {[json |-> "unreadable"], [json |-> "null"], [json |-> "number"]}
  \cup {[json |-> "object", youtubeUrl |-> url] : url \in UrlValues}

\* body.youtubeUrl: a number has no such property
youtubeUrlOf(body) ==
  IF body.json = "object" THEN body.youtubeUrl ELSE Undefined

\* the condition of line 34 negated: the URL is accepted
UrlAccepted(given) ==
  /\ given.type = "string"
  /\ given.value # <<>>
  /\ isValidYoutubeUrl(given.value)

\* the lists detectChords may resolve to
DetectedChordResults ==
  {<<>>,
   <<[chord |-> <<"C">>, start |-> Int2Num(0), end |-> Int2Num(1)]>>,
   <<[chord |-> <<"C", "c", "o", "n", "s", "t", "r", "u", "c", "t", "o", "r">>,
      start |-> Int2Num(0), end |-> Int2Num(1)]>>}

RouteInit ==
  /\ DetectorNew
  /\ CallIdle
  /\ MatcherIdle
  /\ MidiIdle
  /\ IdleExceptRoute
  /\ request \in RequestBodies
  /\ routePc = "json"
  /\ tempAudioPath = Null
  /\ tempDir = "none"
  /\ invocations = <<>>
  /\ removals = 0
  /\ failed = "none"
  /\ result = None
  /\ response = None

\* the handler returns value from its try or catch block: the finally
\* block runs, and with tempAudioPath null it awaits nothing, so the
\* response is delivered; otherwise fs.rm is awaited first
Returns(value) ==
  /\ result' = value
  /\ IF tempAudioPath = Null
     THEN /\ routePc' = "responded"
          /\ response' = value
     ELSE /\ routePc' = "cleanup"
          /\ response' = response

\* a step of the try block throws: the catch block returns status 500
\* with a message
Throws(step, message) ==
  /\ failed' = step
  /\ Returns([status |-> 500, error |-> message])

\* await req.json(), body.youtubeUrl and the test of line 34
ReadBody ==
  /\ routePc = "json"
  /\ CASE request.json = "unreadable" -> Throws("json", "error.message")
       [] request.json = "null" -> Throws("body", "error.message")
       [] request.json \in {"number", "object"}
            /\ ~UrlAccepted(youtubeUrlOf(request)) ->
              /\ Returns([status |-> 400,
                          error |-> "Invalid or missing YouTube URL."])
              /\ UNCHANGED failed
       [] OTHER ->
              /\ routePc' = "mkdtemp"
              /\ UNCHANGED <<failed, result, response>>
  /\ UNCHANGED <<request, tempAudioPath, tempDir, invocations, removals>>
  /\ UNCHANGED libraryVars
  /\ UNCHANGED exceptRouteVars

\* await fs.mkdtemp(...) resolves or rejects; tempAudioPath is set to the
\* output template in the new directory
Mkdtemp(ok) ==
  /\ routePc = "mkdtemp"
  /\ IF ok
     THEN /\ tempDir' = "empty"
          /\ tempAudioPath' = [path |-> "audio.%(ext)s"]
          /\ routePc' = "download"
          /\ UNCHANGED <<failed, result, response>>
     ELSE /\ Throws("mkdtemp", "error.message")
          /\ UNCHANGED <<tempDir, tempAudioPath>>
  /\ UNCHANGED <<request, invocations, removals>>
  /\ UNCHANGED libraryVars
  /\ UNCHANGED exceptRouteVars

\* await youtubeDl(youtubeUrl, {output: tempAudioPath, ...}) resolves,
\* having written an audio file or not, or rejects
Download(ok, written) ==
  /\ routePc = "download"
  /\ invocations' = Append(invocations, "download")
  /\ tempDir' = IF written THEN "audio" ELSE tempDir
  /\ IF ok
     THEN /\ routePc' = "readdir"
          /\ UNCHANGED <<failed, result, response>>
     ELSE Throws("download", "yt-dlp error: error.stderr")
  /\ UNCHANGED <<request, tempAudioPath, removals>>
  /\ UNCHANGED libraryVars
  /\ UNCHANGED exceptRouteVars

\* await fs.readdir(tempDir) and the search for the file "audio.*"
Readdir(ok) ==
  /\ routePc = "readdir"
  /\ IF ~ok
     THEN /\ Throws("readdir", "error.message")
          /\ UNCHANGED tempAudioPath
     ELSE IF tempDir # "audio"
     THEN /\ Throws("lookup",
                    "Failed to find downloaded audio file after yt-dlp execution.")
          /\ UNCHANGED tempAudioPath
     ELSE /\ tempAudioPath' = [path |-> "audio.m4a"]
          /\ routePc' = "readFile"
          /\ UNCHANGED <<failed, result, response>>
  /\ UNCHANGED <<request, tempDir, invocations, removals>>
  /\ UNCHANGED libraryVars
  /\ UNCHANGED exceptRouteVars

\* await fs.readFile(actualAudioPath)
ReadFile(ok) ==
  /\ routePc = "readFile"
  /\ IF ok
     THEN /\ routePc' = "detect"
          /\ UNCHANGED <<failed, result, response>>
     ELSE Throws("readFile", "error.message")
  /\ UNCHANGED <<request, tempAudioPath, tempDir, invocations, removals>>
  /\ UNCHANGED libraryVars
  /\ UNCHANGED exceptRouteVars

\* await detectChords(arrayBuffer) rejects
DetectRejects ==
  /\ routePc = "detect"
  /\ Throws("detect", "Chord detection failed: error.message")
  /\ UNCHANGED <<request, tempAudioPath, tempDir, invocations, removals>>
  /\ UNCHANGED libraryVars
  /\ UNCHANGED exceptRouteVars

\* await detectChords(arrayBuffer) resolves to chords, and
\* generateMidiFromChords(chords) of midiUtils returns the MIDI data or
\* throws
DetectAndGenerate(chords) ==
  /\ routePc = "detect"
  /\ IF midiUtilsGenerateMidiFromChords(chords).threw
     THEN Throws("midi", "error.message")
     ELSE /\ result' = [status |-> 200,
                        chords |-> chords,
                        midi |-> midiUtilsGenerateMidiFromChords(chords).chords,
                        originalFilename |-> "YouTube Audio"]
          /\ routePc' = "title"
          /\ UNCHANGED <<failed, response>>
  /\ UNCHANGED <<request, tempAudioPath, tempDir, invocations, removals>>
  /\ UNCHANGED libraryVars
  /\ UNCHANGED exceptRouteVars

\* await youtubeDl(youtubeUrl, {getTitle: true, skipDownload: true})
\* resolves to the title or rejects (caught at line 101); the handler
\* returns the results
TitleLookup(ok) ==
  /\ routePc = "title"
  /\ invocations' = Append(invocations, "title")
  /\ failed' = IF ok THEN failed ELSE "title"
  /\ result' = [result EXCEPT
                  !.originalFilename = IF ok THEN "metadata" ELSE @]
  /\ routePc' = "cleanup"
  /\ UNCHANGED <<request, tempAudioPath, tempDir, removals, response>>
  /\ UNCHANGED libraryVars
  /\ UNCHANGED exceptRouteVars

\* the finally block with tempAudioPath set: await fs.rm(tempDir, ...)
\* resolves or rejects (caught at line 132), and the response is delivered
Cleanup(ok) ==
  /\ routePc = "cleanup"
  /\ removals' = removals + 1
  /\ tempDir' = IF ok THEN "removed" ELSE tempDir
  /\ response' = result
  /\ routePc' = "responded"
  /\ UNCHANGED <<request, tempAudioPath, invocations, failed, result>>
  /\ UNCHANGED libraryVars
  /\ UNCHANGED exceptRouteVars

RouteNext ==
  \/ ReadBody
  \/ \E ok \in BOOLEAN : Mkdtemp(ok)
  \/ \E ok \in BOOLEAN, written \in BOOLEAN : Download(ok, written)
  \/ \E ok \in BOOLEAN : Readdir(ok)
  \/ \E ok \in BOOLEAN : ReadFile(ok)
  \/ DetectRejects
  \/ \E chords \in DetectedChordResults : DetectAndGenerate(chords)
  \/ \E ok \in BOOLEAN : TitleLookup(ok)
  \/ \E ok \in BOOLEAN : Cleanup(ok)

SpecRoute == RouteInit /\ [][RouteNext]_vars

(***************************************************************************)
(* The Home page and its YouTubeForm                                       *)
(***************************************************************************)
\* string ends with suffix
EndsWith(string, suffix) ==
  /\ Len(string) >= Len(suffix)
  /\ SubSeq(string, Len(string) - Len(suffix) + 1, Len(string)) = suffix

\* youtubeUrl.trim() is empty: the text is white space only
TrimsToEmpty(text) == \A i \in 1..Len(text) : text[i] = " "

\* texts typed into the URL field
TypedUrls ==
  {<<>>, <<" ">>,
   <<"a", "b", "c">>,
   <<"y", "o", "u", "t", "u", "b", "e", ".", "c", "o", "m", "/">>,
   <<"h", "t", "t", "p", "s", ":", "/", "/", "v", "i", "m", "e", "o", ".", "c", "o", "m", "/", "1">>,
   <<"y", "o", "u", "t", "u", ".", "b", "e", "/", "x">>,
   <<"h", "t", "t", "p", ":", "/", "/", "y", "o", "u", "t", "u", "b", "e", "/", "a">>,
   <<"h", "t", "t", "p", "s", ":", "/", "/", "w", "w", "w", ".", "y", "o", "u", "t", "u", "b", "e", ".", "c", "o", "m", "/", "w">>}

\* the heuristic of line 68 of page.tsx for a result of the YouTube route
LooksLikeYoutube(originalFilename) ==
  \/ EndsWith(originalFilename, <<".", "m", "i", "d">>)
  \/ originalFilename = <<"Y", "o", "u", "T", "u", "b", "e", " ", "A", "u", "d", "i", "o">>
  \/ StartsWith(originalFilename, <<"y", "t", "-">>)

\* bodies of a response with status 200: chords absent or a list,
\* midiBase64 empty or not, originalFilename empty, the route's default, a
\* title
ResultData ==
  [chords : {Undefined, <<>>},
   midiBase64 : {"", "TVRoZA"},
   originalFilename : {<<>>, <<"Y", "o", "u", "T", "u", "b", "e", " ", "A", "u", "d", "i", "o">>, <<"S", "o", "n", "g">>, <<"y", "t", "-", "1">>, <<"a", ".", "m", "i", "d">>}]

\* what fetch and response.json() may deliver
FetchOutcomes ==
  {[kind |-> "rejected"], [kind |-> "notJson"],
   [kind |-> "notOk", error |-> "yt-dlp error"],
   [kind |-> "notOk", error |-> ""]}
  \cup {[kind |-> "ok", data |-> data] : data \in ResultData}

\* !data.chords || !data.midiBase64 || !data.originalFilename
Incomplete(data) ==
  \/ data.chords = Undefined
  \/ data.midiBase64 = ""
  \/ data.originalFilename = <<>>

\* the object handed to setAppData (lines 92-98); the route sends neither
\* youtubeVideoId nor youtubeUrl, so sourceValue is ''
AppDataOf(data) ==
  [chords |-> data.chords,
   midiBase64 |-> data.midiBase64,
   originalFilename |-> data.originalFilename,
   sourceType |-> IF LooksLikeYoutube(data.originalFilename)
                  THEN "youtube" ELSE "file",
   sourceValue |-> ""]

\* handleProcessingStart of Home (the playback fields other than
\* isPlaying are reset to the values they keep throughout)
handleProcessingStart ==
  /\ processingState' = "processing"
  /\ pageError' = ""
  /\ appData' = Null
  /\ pagePlaying' = FALSE
  /\ UNCHANGED playbackMode

\* handleProcessingError(errorMessage) of Home
handleProcessingError(errorMessage) ==
  /\ pageError' = errorMessage
  /\ processingState' = "error"
  /\ appData' = Null
  /\ pagePlaying' = FALSE
  /\ UNCHANGED playbackMode

\* handleProcessingComplete(data) of Home
handleProcessingComplete(data) ==
  IF Incomplete(data)
  THEN handleProcessingError("Incomplete data received from server.")
  ELSE /\ appData' = AppDataOf(data)
       /\ processingState' = "complete"
       /\ pageError' = ""
       /\ playbackMode' = "original"
       /\ UNCHANGED pagePlaying

HomeInit ==
  /\ DetectorNew
  /\ CallIdle
  /\ MatcherIdle
  /\ MidiIdle
  /\ IdleExceptHome
  /\ processingState = "idle"
  /\ appData = Null
  /\ pageError = ""
  /\ pagePlaying = FALSE
  /\ playbackMode = "original"
  /\ youtubeUrl = <<>>
  /\ isProcessing = FALSE
  /\ lastEvent = "none"

\* handleUrlChange of YouTubeForm, called when the text of the field
\* changes: the field is disabled while a submission is in flight
handleUrlChange(text) ==
  /\ ~isProcessing
  /\ text # youtubeUrl
  /\ youtubeUrl' = text
  /\ handleProcessingError("")
  /\ lastEvent' = "edit"
  /\ UNCHANGED isProcessing
  /\ UNCHANGED libraryVars
  /\ UNCHANGED exceptHomeVars

\* handleSubmit of YouTubeForm up to its await of fetch: the button is
\* disabled while the field is empty or a submission is in flight
handleSubmit ==
  /\ ~isProcessing
  /\ youtubeUrl # <<>>
  /\ IF TrimsToEmpty(youtubeUrl)
     THEN /\ handleProcessingError("Please enter a YouTube URL.")
          /\ lastEvent' = "rejected"
          /\ UNCHANGED isProcessing
     ELSE IF ~isValidYoutubeUrl(youtubeUrl)
     THEN /\ handleProcessingError("Please enter a valid YouTube URL.")
          /\ lastEvent' = "rejected"
          /\ UNCHANGED isProcessing
     ELSE /\ isProcessing' = TRUE
          /\ handleProcessingStart
          /\ lastEvent' = "start"
  /\ UNCHANGED youtubeUrl
  /\ UNCHANGED libraryVars
  /\ UNCHANGED exceptHomeVars

\* handleSubmit from the await of fetch on: the response arrives or the
\* request fails, and the finally block clears isProcessing
FetchSettles(outcome) ==
  /\ isProcessing
  /\ CASE outcome.kind = "ok" ->
            /\ handleProcessingComplete(outcome.data)
            /\ lastEvent' = IF Incomplete(outcome.data)
                            THEN "incomplete" ELSE "complete"
       [] outcome.kind = "notOk" ->
            /\ handleProcessingError(IF outcome.error # ""
                                     THEN outcome.error
                                     ELSE "HTTP error! status: 500")
            /\ lastEvent' = "failed"
       [] OTHER ->
            /\ handleProcessingError("error.message")
            /\ lastEvent' = "failed"
  /\ isProcessing' = FALSE
  /\ UNCHANGED youtubeUrl
  /\ UNCHANGED libraryVars
  /\ UNCHANGED exceptHomeVars

\* handlePlayPause of Home
handlePlayPause ==
  /\ appData # Null
  /\ pagePlaying' = ~pagePlaying
  /\ lastEvent' = "playPause"
  /\ UNCHANGED <<processingState, appData, pageError, playbackMode,
                 youtubeUrl, isProcessing>>
  /\ UNCHANGED libraryVars
  /\ UNCHANGED exceptHomeVars

\* setPlaybackMode(mode), from the buttons shown with the results (once the
\* players are ready)
setPlaybackMode(mode) ==
  /\ processingState = "complete"
  /\ appData # Null
  /\ playbackMode' = mode
  /\ lastEvent' = "mode"
  /\ UNCHANGED <<processingState, appData, pageError, pagePlaying,
                 youtubeUrl, isProcessing>>
  /\ UNCHANGED libraryVars
  /\ UNCHANGED exceptHomeVars

HomeNext ==
  \/ \E text \in TypedUrls : handleUrlChange(text)
  \/ handleSubmit
  \/ \E outcome \in FetchOutcomes : FetchSettles(outcome)
  \/ handlePlayPause
  \/ \E mode \in {"original", "midi"} : setPlaybackMode(mode)

SpecHome == HomeInit /\ [][HomeNext]_vars

(***************************************************************************)
(* The MidiPlayer driven by props: its load effect                         *)
(***************************************************************************)
MaxLoads == 3

\* the state of the prop-driven player alone, and of the chord-list player
\* alone; both use midiDataRef, scheduledEventsRef and Tone.Transport
propPlayerVars ==
  <<midiBase64, supplied, loading, settled, durationRef, isReadyRef,
    reported>>

listPlayerVars ==
  <<isPlaying, currentTime, duration, currentChordIndex, contextState,
    starting, transportState, transportSeconds, effectPlaying, lastCall>>

\* the chord-list player is not mounted
ListPlayerAbsent ==
  /\ isPlaying = None
  /\ currentTime = None
  /\ duration = None
  /\ currentChordIndex = None
  /\ contextState = None
  /\ starting = None
  /\ transportState = None
  /\ transportSeconds = None
  /\ effectPlaying = None
  /\ lastCall = None

\* the prop-driven player is not mounted
PropPlayerAbsent ==
  /\ midiBase64 = None
  /\ supplied = None
  /\ loading = None
  /\ settled = None
  /\ durationRef = None
  /\ isReadyRef = None
  /\ reported = None

\* no MIDI: the prop or the ref is null
NoMidi == "null"

\* the MIDI data the parent may supply
MidiFiles == {"A", "B"}

\* new Midi(midiBinary): the notes of the tracks and the duration
ParsedMidi(base64) ==
  IF base64 = "A"
  THEN [notes |-> <<[name |-> "C4", time |-> 0], [name |-> "E4", time |-> 1]>>,
        duration |-> 2]
  ELSE [notes |-> <<[name |-> "G4", time |-> 0]>>,
        duration |-> 3]

\* the events loadMidi schedules for base64, the ids starting after first:
\* one per note, and the end event
ScheduledFor(base64, first) ==
  [i \in 1..(Len(ParsedMidi(base64).notes) + 1) |->
     [id |-> first + i,
      midi |-> base64,
      at |-> IF i <= Len(ParsedMidi(base64).notes)
             THEN ParsedMidi(base64).notes[i].time
             ELSE ParsedMidi(base64).duration,
      note |-> IF i <= Len(ParsedMidi(base64).notes)
               THEN ParsedMidi(base64).notes[i].name
               ELSE "onEnded"]]

\* the ids of a sequence of events
EventIds(events) == [i \in 1..Len(events) |-> events[i].id]

PlayerInit ==
  /\ DetectorNew
  /\ CallIdle
  /\ MatcherIdle
  /\ MidiIdle
  /\ IdleExceptPlayer
  /\ midiBase64 = NoMidi
  /\ supplied = <<>>
  /\ loading = {}
  /\ settled = {}
  /\ transportEvents = {}
  /\ eventCount = 0
  /\ scheduledEventsRef = <<>>
  /\ midiDataRef = NoMidi
  /\ durationRef = 0
  /\ isReadyRef = FALSE
  /\ reported = <<>>
  /\ ListPlayerAbsent

\* the load effect runs with a new midiBase64: the transport and the ids
\* are cleared, and for a MIDI loadMidi is started and awaits Tone.start()
ChangeMidi(base64) ==
  /\ base64 # midiBase64
  /\ Len(supplied) < MaxLoads
  /\ midiBase64' = base64
  /\ isReadyRef' = FALSE
  /\ transportEvents' = {}
  /\ scheduledEventsRef' = <<>>
  /\ IF base64 = NoMidi
     THEN /\ midiDataRef' = NoMidi
          /\ UNCHANGED <<supplied, loading>>
     ELSE /\ supplied' = Append(supplied, base64)
          /\ loading' = loading \cup {Len(supplied) + 1}
          /\ UNCHANGED midiDataRef
  /\ UNCHANGED <<settled, eventCount, durationRef, reported>>
  /\ UNCHANGED listPlayerVars
  /\ UNCHANGED libraryVars
  /\ UNCHANGED exceptPlayerVars

\* loadMidi of run load after Tone.start() resolved: the MIDI is parsed,
\* its duration stored and reported, and its events scheduled
LoadMidiResumes(load) ==
  /\ load \in loading
  /\ loading' = loading \ {load}
  /\ settled' = settled \cup {[load |-> load, ok |-> TRUE]}
  /\ midiDataRef' = supplied[load]
  /\ durationRef' = ParsedMidi(supplied[load]).duration
  /\ reported' = Append(reported, ParsedMidi(supplied[load]).duration)
  /\ transportEvents' =
       transportEvents
       \cup {ScheduledFor(supplied[load], eventCount)[i] :
               i \in DOMAIN ScheduledFor(supplied[load], eventCount)}
  /\ scheduledEventsRef' =
       scheduledEventsRef \o EventIds(ScheduledFor(supplied[load], eventCount))
  /\ eventCount' = eventCount + Len(ScheduledFor(supplied[load], eventCount))
  /\ isReadyRef' = TRUE
  /\ UNCHANGED <<midiBase64, supplied>>
  /\ UNCHANGED listPlayerVars
  /\ UNCHANGED libraryVars
  /\ UNCHANGED exceptPlayerVars

\* loadMidi of run load when Tone.start() rejects or the data does not
\* parse: the catch block
LoadMidiThrows(load) ==
  /\ load \in loading
  /\ loading' = loading \ {load}
  /\ settled' = settled \cup {[load |-> load, ok |-> FALSE]}
  /\ midiDataRef' = NoMidi
  /\ isReadyRef' = FALSE
  /\ UNCHANGED <<midiBase64, supplied, transportEvents, eventCount,
                 scheduledEventsRef, durationRef, reported>>
  /\ UNCHANGED listPlayerVars
  /\ UNCHANGED libraryVars
  /\ UNCHANGED exceptPlayerVars

PlayerNext ==
  \/ \E base64 \in MidiFiles \cup {NoMidi} : ChangeMidi(base64)
  \/ \E load \in 1..MaxLoads : LoadMidiResumes(load)
  \/ \E load \in 1..MaxLoads : LoadMidiThrows(load)

SpecPlayer == PlayerInit /\ [][PlayerNext]_vars

(***************************************************************************)
(* The MidiPlayer with the chord list: startPlayback, stopPlayback and     *)
(* seekToTime                                                              *)
(***************************************************************************)
MaxStarts == 3

MaxPending == 2

\* the tracks of the MIDI at midiUrl: chords and melody
ListMidiNotes ==
  <<[name |-> "C4", time |-> 0, duration |-> 1, track |-> 0],
    [name |-> "E4", time |-> 2, duration |-> 1, track |-> 0],
    [name |-> "G4", time |-> 0, duration |-> 2, track |-> 1]>>

\* the chords prop: their start times
ListChords == <<[startTime |-> 0], [startTime |-> 2]>>

\* the times a seek may ask for
SeekTimes == {-1, 0, 1, 2, 3, 4}

\* loadMidi's maxEndTime: the latest end of a note
NoteEndTimes ==
  {ListMidiNotes[i].time + ListMidiNotes[i].duration :
     i \in DOMAIN ListMidiNotes}

MaxEndTime == CHOOSE end \in NoteEndTimes : \A other \in NoteEndTimes : other <= end

\* chords.findIndex(...) for time: the chord playing at time, or -1
FindChordIndex(time) ==
  IF \E i \in DOMAIN ListChords :
       /\ time >= ListChords[i].startTime
       /\ (i = Len(ListChords) \/ time < ListChords[i + 1].startTime)
  THEN (CHOOSE i \in DOMAIN ListChords :
          /\ time >= ListChords[i].startTime
          /\ (i = Len(ListChords) \/ time < ListChords[i + 1].startTime)
          /\ \A j \in 1..(i - 1) :
               ~(/\ time >= ListChords[j].startTime
                 /\ time < ListChords[j + 1].startTime)) - 1
  ELSE -1

\* the events startPlayback schedules, ids after first: the notes of the
\* tracks and the end of playback at end
ListScheduled(first, end) ==
  [i \in 1..(Len(ListMidiNotes) + 1) |->
     [id |-> first + i,
      index |-> i,
      at |-> IF i <= Len(ListMidiNotes) THEN ListMidiNotes[i].time ELSE end,
      note |-> IF i <= Len(ListMidiNotes)
               THEN ListMidiNotes[i].name ELSE "stopPlayback"]]

\* the ids in scheduledEventsRef
KeptIds == {scheduledEventsRef[i] : i \in DOMAIN scheduledEventsRef}

ListInit ==
  /\ DetectorNew
  /\ CallIdle
  /\ MatcherIdle
  /\ MidiIdle
  /\ IdleExceptPlayer
  /\ PropPlayerAbsent
  /\ isPlaying = FALSE
  /\ currentTime = 0
  /\ duration = 0
  /\ currentChordIndex = -1
  /\ contextState = "suspended"
  /\ starting = 0
  /\ transportState = "stopped"
  /\ transportSeconds = 0
  /\ effectPlaying = FALSE
  /\ lastCall = [name |-> "none"]
  /\ midiDataRef = NoMidi
  /\ scheduledEventsRef = <<>>
  /\ transportEvents = {}
  /\ eventCount = 0

\* startPlayback from "Clear any previously scheduled events" on: the
\* events kept are cleared, the transport is reset, the notes and the end
\* are scheduled, the transport is started
StartBody ==
  /\ transportEvents' =
       {e \in transportEvents : e.id \notin KeptIds}
       \cup {ListScheduled(eventCount, duration)[i] :
               i \in DOMAIN ListScheduled(eventCount, duration)}
  /\ scheduledEventsRef' = EventIds(ListScheduled(eventCount, duration))
  /\ eventCount' = eventCount + Len(ListScheduled(eventCount, duration))
  /\ transportState' = "started"
  /\ transportSeconds' = 0
  /\ currentTime' = 0
  /\ currentChordIndex' = -1
  /\ isPlaying' = TRUE

\* the load effect's loadMidi resolves: the MIDI and its duration are
\* stored
LoadListMidi ==
  /\ midiDataRef = NoMidi
  /\ midiDataRef' = "midi"
  /\ duration' = MaxEndTime
  /\ lastCall' = [name |-> "loadMidi"]
  /\ UNCHANGED <<isPlaying, currentTime, currentChordIndex, contextState,
                 starting, transportState, transportSeconds, effectPlaying,
                 scheduledEventsRef, transportEvents, eventCount>>
  /\ UNCHANGED propPlayerVars
  /\ UNCHANGED libraryVars
  /\ UNCHANGED exceptPlayerVars

\* startPlayback from the Play button, up to its await of Tone.start() or,
\* with the context running, to its end
startPlayback ==
  /\ ~isPlaying
  /\ eventCount < MaxStarts * (Len(ListMidiNotes) + 1)
  /\ lastCall' = [name |-> "startPlayback"]
  /\ IF midiDataRef = NoMidi
     THEN UNCHANGED <<isPlaying, currentTime, currentChordIndex, starting,
                      transportState, transportSeconds, scheduledEventsRef,
                      transportEvents, eventCount>>
     ELSE IF contextState # "running"
     THEN /\ starting < MaxPending
          /\ starting' = starting + 1
          /\ UNCHANGED <<isPlaying, currentTime, currentChordIndex,
                         transportState, transportSeconds,
                         scheduledEventsRef, transportEvents, eventCount>>
     ELSE /\ StartBody
          /\ UNCHANGED starting
  /\ UNCHANGED <<duration, contextState, effectPlaying, midiDataRef>>
  /\ UNCHANGED propPlayerVars
  /\ UNCHANGED libraryVars
  /\ UNCHANGED exceptPlayerVars

\* Tone.start() resolves and a startPlayback that awaited it goes on
StartResumes ==
  /\ starting > 0
  /\ eventCount < MaxStarts * (Len(ListMidiNotes) + 1)
  /\ starting' = starting - 1
  /\ contextState' = "running"
  /\ StartBody
  /\ lastCall' = [name |-> "startPlayback"]
  /\ UNCHANGED <<duration, effectPlaying, midiDataRef>>
  /\ UNCHANGED propPlayerVars
  /\ UNCHANGED libraryVars
  /\ UNCHANGED exceptPlayerVars

\* Tone.start() rejects: the catch block of startPlayback
StartRejects ==
  /\ starting > 0
  /\ contextState # "running"
  /\ starting' = starting - 1
  /\ lastCall' = [name |-> "startPlayback"]
  /\ UNCHANGED <<isPlaying, currentTime, duration, currentChordIndex,
                 contextState, transportState, transportSeconds,
                 effectPlaying, midiDataRef, scheduledEventsRef,
                 transportEvents, eventCount>>
  /\ UNCHANGED propPlayerVars
  /\ UNCHANGED libraryVars
  /\ UNCHANGED exceptPlayerVars

\* stopPlayback from the Stop button: Tone.Transport.stop() also returns
\* the transport to 0
stopPlayback ==
  /\ isPlaying
  /\ transportState' = "stopped"
  /\ transportSeconds' = 0
  /\ isPlaying' = FALSE
  /\ lastCall' = [name |-> "stopPlayback"]
  /\ UNCHANGED <<currentTime, duration, currentChordIndex, contextState,
                 starting, effectPlaying, midiDataRef, scheduledEventsRef,
                 transportEvents, eventCount>>
  /\ UNCHANGED propPlayerVars
  /\ UNCHANGED libraryVars
  /\ UNCHANGED exceptPlayerVars

\* seekToTime(time)
seekToTime(time) ==
  /\ lastCall' = [name |-> "seekToTime", time |-> time,
                  wasPlaying |-> isPlaying, duration |-> duration]
  /\ IF time < 0 \/ time > duration
     THEN UNCHANGED <<isPlaying, currentTime, currentChordIndex, starting,
                      transportState, transportSeconds, scheduledEventsRef,
                      transportEvents, eventCount>>
     ELSE IF isPlaying /\ midiDataRef # NoMidi /\ contextState = "running"
     THEN \* stopPlayback, the new position, and startPlayback to its end
          /\ eventCount < MaxStarts * (Len(ListMidiNotes) + 1)
          /\ StartBody
          /\ UNCHANGED starting
     ELSE \* the new position; a startPlayback that follows a stopPlayback
          \* returns at once or awaits Tone.start()
          /\ transportState' = IF isPlaying THEN "stopped" ELSE transportState
          /\ isPlaying' = FALSE
          /\ transportSeconds' = time
          /\ currentTime' = time
          /\ currentChordIndex' =
               IF FindChordIndex(time) # -1 THEN FindChordIndex(time)
               ELSE currentChordIndex
          /\ starting' =
               IF isPlaying /\ midiDataRef # NoMidi /\ starting < MaxPending
               THEN starting + 1 ELSE starting
          /\ UNCHANGED <<scheduledEventsRef, transportEvents, eventCount>>
  /\ UNCHANGED <<duration, contextState, effectPlaying, midiDataRef>>
  /\ UNCHANGED propPlayerVars
  /\ UNCHANGED libraryVars
  /\ UNCHANGED exceptPlayerVars

\* a second of playback passes; at the end event stopPlayback runs
TransportAdvances ==
  /\ transportState = "started"
  /\ transportSeconds < MaxEndTime
  /\ lastCall' = [name |-> "transport"]
  /\ IF \E e \in transportEvents :
          e.note = "stopPlayback" /\ e.at = transportSeconds + 1
     THEN /\ transportState' = "stopped"
          /\ transportSeconds' = 0
          /\ isPlaying' = FALSE
     ELSE /\ transportSeconds' = transportSeconds + 1
          /\ UNCHANGED <<transportState, isPlaying>>
  /\ UNCHANGED <<currentTime, duration, currentChordIndex, contextState,
                 starting, effectPlaying, midiDataRef, scheduledEventsRef,
                 transportEvents, eventCount>>
  /\ UNCHANGED propPlayerVars
  /\ UNCHANGED libraryVars
  /\ UNCHANGED exceptPlayerVars

\* the interval of the Tone effect: the time and the chord shown follow
\* the transport while playing
UpdateLoop ==
  /\ isPlaying
  /\ currentTime' = transportSeconds
  /\ currentChordIndex' =
       IF FindChordIndex(transportSeconds) # -1
       THEN FindChordIndex(transportSeconds) ELSE currentChordIndex
  /\ lastCall' = [name |-> "interval"]
  /\ UNCHANGED <<isPlaying, duration, contextState, starting,
                 transportState, transportSeconds, effectPlaying,
                 midiDataRef, scheduledEventsRef, transportEvents,
                 eventCount>>
  /\ UNCHANGED propPlayerVars
  /\ UNCHANGED libraryVars
  /\ UNCHANGED exceptPlayerVars

\* the Tone effect runs again because isPlaying changed: its cleanup calls
\* stopPlayback
EffectCleanup ==
  /\ effectPlaying # isPlaying
  /\ effectPlaying' = isPlaying
  /\ transportState' = "stopped"
  /\ transportSeconds' = 0
  /\ isPlaying' = FALSE
  /\ lastCall' = [name |-> "cleanup"]
  /\ UNCHANGED <<currentTime, duration, currentChordIndex, contextState,
                 starting, midiDataRef, scheduledEventsRef, transportEvents,
                 eventCount>>
  /\ UNCHANGED propPlayerVars
  /\ UNCHANGED libraryVars
  /\ UNCHANGED exceptPlayerVars

ListNext ==
  \/ LoadListMidi
  \/ startPlayback
  \/ StartResumes
  \/ StartRejects
  \/ stopPlayback
  \/ \E time \in SeekTimes : seekToTime(time)
  \/ TransportAdvances
  \/ UpdateLoop
  \/ EffectCleanup

SpecList == ListInit /\ [][ListNext]_vars

(***************************************************************************)
(* Properties                                                              *)
(***************************************************************************)
Zero == Num2Surd(Int2Num(0))

RealZero == Surd2Real(Zero)

\* the root-relative template t shifted cyclically so that its index-0
\* weight lands on bin root
ShiftedTemplate(t, root) ==
  [i \in 1..12 |-> chordTemplates[t][((i - 1 - root) % 12) + 1]]

Combinations == (0..11) \X (1..Len(chordTemplates))

\* the Pearson correlation of vec with every shifted template
CorrelationTable(vec) ==
  [c \in Combinations |-> calculateCorrelation(vec, ShiftedTemplate(c[2], c[1]))]

\* the combinations whose correlation with vec no other combination exceeds
Maximal(vec) ==
  LET table == CorrelationTable(vec)
      values == {table[c] : c \in Combinations}
      best == CHOOSE x \in values : \A y \in values : SurdGe(x, y)
  IN  {c \in Combinations : table[c] = best}

TypeNumber(chordType) ==
  CHOOSE t \in 1..Len(chordTypes) : chordTypes[t] = chordType

\* C1: extractChromaFeatures analyses exactly the frames at offsets 0, H,
\* 2H, ... with offset + F <= L, in increasing order, one chroma vector per
\* frame: floor((L - F) / H) + 1 frames when L >= F and none when L < F; no
\* sample index >= L is read.
C1_FramesAnalysed ==
  /\ Len(chromaFeatures) = Len(frameOffsets)
  /\ \A j \in 1..Len(frameOffsets) :
       /\ frameOffsets[j] = (j - 1) * hopSize
       /\ frameOffsets[j] + frameSize <= audioLength
  /\ maxIndexRead < audioLength
  /\ pc \in {"detect", "done"} =>
       Len(frameOffsets) = IF audioLength >= frameSize
                           THEN ((audioLength - frameSize) \div hopSize) + 1
                           ELSE 0

\* two frames were analysed and a third one would have read one sample
\* past the end of the buffer
C1_Witness ==
  /\ pc = "detect"
  /\ audioLength = frameSize + 2 * hopSize - 1
  /\ Len(frameOffsets) = 2
  /\ maxIndexRead = frameSize + hopSize - 1

\* C2: detectChords on a buffer shorter than one frame analyses no frame,
\* detects no candidate, returns the empty list and throws nothing of its
\* own (only a failed engine initialization makes the call throw).
C2_ShortBufferEmpty ==
  (pc # "idle" /\ audioLength < frameSize) =>
    /\ frameOffsets = <<>>
    /\ chromaFeatures = <<>>
    /\ rawChords = <<>>
    /\ processedChords = <<>>
    /\ pc = "threw" => error = "initialize"

\* a call on a buffer one sample short of a frame has returned
C2_Witness ==
  /\ pc = "done"
  /\ audioLength = frameSize - 1
  /\ processedChords = <<>>

\* C3: for a silent buffer of at least one frame, every frame of which has
\* the all-zero chroma vector, detectChords returns the empty list.
C3_SilentInputEmpty ==
  (/\ pc = "done"
   /\ Len(chromaFeatures) >= 1
   /\ \A j \in 1..Len(chromaFeatures) : chromaFeatures[j] = ZeroChroma)
  => processedChords = <<>>

\* C4: calculateCorrelation is exactly 0 whenever the Pearson denominator is
\* 0; the all-zero vector has correlation 0 with each of the 12 x 9 rotated
\* templates, and findBestMatchingChord reports confidence 0 for it.
C4_ZeroDenominatorZero ==
  match # None =>
    /\ \A c \in Combinations :
         LET b == RotateTemplate(chordTemplates[c[2]], c[1])
         IN  MathSqrt(CorrelationParts(chroma, b).radicand) = Zero
               => calculateCorrelation(chroma, b) = Zero
    /\ chroma = ZeroChroma =>
         /\ \A c \in Combinations :
              calculateCorrelation(chroma, RotateTemplate(chordTemplates[c[2]], c[1]))
                = Zero
         /\ match.confidence = Zero

\* the matcher was applied to the all-zero vector
C4_Witness ==
  /\ chroma = ZeroChroma
  /\ match # None
  /\ match.confidence = Zero

\* C5: in detectChordsFromChroma a frame with the all-zero chroma vector
\* gives the matcher a vector without NaN, and its candidate has
\* confidence 0.
C5_ZeroEnergyFrameConfidenceZero ==
  pc = "detect" =>
    \A j \in 1..Len(rawChords) :
      chromaFeatures[j] = ZeroChroma =>
        /\ \A i \in 1..12 : ~IsNaN(VectorAt(NormalizeChroma(chromaFeatures[j]), i))
        /\ rawChords[j].confidence = RealZero

\* C6: findBestMatchingChord returns a root and a quality whose correlation
\* with the chroma vector, the template being shifted so that its index 0
\* lands on the root's bin, is at least that of each of the 12 x 9
\* combinations, and the confidence is that correlation.
C6_BestMatchIsMaximal ==
  match # None =>
    LET table == CorrelationTable(chroma)
    IN  /\ match.root \in 0..11
        /\ \E t \in 1..Len(chordTypes) : chordTypes[t] = match.chordType
        /\ match.confidence = table[<<match.root, TypeNumber(match.chordType)>>]
        /\ \A c \in Combinations : SurdGe(match.confidence, table[c])
        /\ match.chordName = noteNames[match.root + 1] \o ChordSuffix(match.chordType)

\* the matcher found D minor for a D minor triad with a strong root
C6_Witness ==
  /\ match # None
  /\ chroma = NormalizeChroma(Chroma(2 :> 2 @@ 5 :> 1 @@ 9 :> 1))
  /\ match.root = 2
  /\ match.chordType = "minor"

\* C7 as stated: among the combinations of maximal correlation the quality
\* that comes first in the canonical order wins, and among those of that
\* quality the lowest root.
C7_TieQualityFirst ==
  match # None =>
    LET M == Maximal(chroma)
        t == CHOOSE x \in {c[2] : c \in M} : \A y \in {c[2] : c \in M} : x <= y
        r == CHOOSE x \in {c[1] : c \in {d \in M : d[2] = t}} :
               \A y \in {c[1] : c \in {d \in M : d[2] = t}} : x <= y
    IN  /\ match.root = r
        /\ match.chordType = chordTypes[t]

\* C7 as amended: among the combinations of maximal correlation the lowest
\* root wins, and among those of that root the quality that comes first in
\* the canonical order.
C7_TieRootFirst ==
  match # None =>
    LET M == Maximal(chroma)
        r == CHOOSE x \in {c[1] : c \in M} : \A y \in {c[1] : c \in M} : x <= y
        t == CHOOSE x \in {c[2] : c \in {d \in M : d[1] = r}} :
               \A y \in {c[2] : c \in {d \in M : d[1] = r}} : x <= y
    IN  /\ match.root = r
        /\ match.chordType = chordTypes[t]

\* the notes C, F, G are C sus4 and F sus2 alike; the matcher answered
\* C sus4
C7_Witness ==
  /\ match # None
  /\ chroma = Chroma(0 :> 1 @@ 5 :> 1 @@ 7 :> 1)
  /\ match.root = 0
  /\ match.chordType = "sus4"
  /\ <<5, 8>> \in Maximal(chroma)

\* C8: findBestMatchingChord(c * V) has the (root, quality) label of
\* findBestMatchingChord(V) for every positive constant c, the numbers
\* being the binary64 numbers of the program.
C8_ScaleInvariant ==
  (variant # None /\ variant.kind = "scale" /\ variant.loop.root = 12) =>
    /\ variant.loop.bestRoot = match.loop.bestRoot
    /\ variant.loop.bestChordType = match.loop.bestChordType

\* the same in exact arithmetic, where no sum is rounded
C8_ScaleInvariantExact ==
  (variant # None /\ variant.kind = "scale") =>
    /\ variant.match.chordName = match.chordName
    /\ variant.match.root = match.root
    /\ variant.match.chordType = match.chordType

\* C9 as stated: if V matches (r, q) then V rotated by k bins matches
\* ((r + k) mod 12, q), for every V and every k in 0..11.
C9_RotationEquivariant ==
  (variant # None /\ variant.kind = "rotate") =>
    /\ variant.match.root = (match.root + variant.k) % 12
    /\ variant.match.chordType = match.chordType

\* exactly one combination has the maximal correlation with vec
UniqueBest(vec) == Cardinality(Maximal(vec)) = 1

\* C9 as amended: if exactly one (root, quality) attains the maximal
\* correlation with V and V matches (r, q), then V rotated by k bins
\* matches ((r + k) mod 12, q), for every k in 0..11.
C9_RotationEquivariantUnique ==
  (variant # None /\ variant.kind = "rotate" /\ UniqueBest(chroma)) =>
    /\ variant.match.root = (match.root + variant.k) % 12
    /\ variant.match.chordType = match.chordType

\* a C minor triad with a strong root, rotated by 7 bins, matched G minor
C9_Witness ==
  /\ variant # None
  /\ variant.kind = "rotate"
  /\ variant.k = 7
  /\ chroma = NormalizeChroma(Chroma(0 :> 2 @@ 3 :> 1 @@ 7 :> 1))
  /\ UniqueBest(chroma)
  /\ match.root = 0
  /\ variant.match.root = 7
  /\ variant.match.chordType = "minor"

\* C10: the list postProcessChords returns is ordered, non-overlapping and
\* non-degenerate: each segment starts before it ends, and ends no later
\* than the next one starts.
C10_SegmentsOrdered ==
  pc = "done" =>
    \A i \in 1..Len(processedChords) :
      /\ NumLt(processedChords[i].startTime, processedChords[i].endTime)
      /\ i < Len(processedChords) =>
           NumLe(processedChords[i].endTime, processedChords[i + 1].startTime)

\* a call returned two segments, the first merged from two frames, and
\* the second starts where the first ends
C10_Witness ==
  /\ pc = "done"
  /\ Len(processedChords) = 2
  /\ processedChords[1].startTime = FrameStartTime(0, hopSize, sampleRate)
  /\ processedChords[1].endTime = FrameEndTime(1, hopSize, sampleRate)
  /\ processedChords[2].startTime = processedChords[1].endTime

\* the positions in the candidate list at which a run of equal labels
\* starts, the k-th of them, and the position at which the k-th run ends
RunStarts(list) ==
  {i \in 1..Len(list) : i = 1 \/ list[i].chord # list[i - 1].chord}

RunStart(list, k) ==
  CHOOSE i \in RunStarts(list) :
    Cardinality({j \in RunStarts(list) : j < i}) = k - 1

RunEnd(list, k) ==
  IF k = Cardinality(RunStarts(list)) THEN Len(list)
  ELSE RunStart(list, k + 1) - 1

\* C11: the merged list has one segment per maximal run of equal labels of
\* the candidates, in order: the segment has the run's label, starts where
\* the run's first frame starts and ends where its last frame ends (so the
\* last run is emitted too); consecutive segments have different labels
\* and the segments tile [0, N * hopSize / sampleRate] without gap or
\* overlap.
C11_MergedRuns ==
  pc = "done" =>
    /\ Len(smoothedChords) = Cardinality(RunStarts(candidates))
    /\ \A k \in 1..Len(smoothedChords) :
         /\ smoothedChords[k].chord = candidates[RunStart(candidates, k)].chord
         /\ smoothedChords[k].startTime =
              candidates[RunStart(candidates, k)].startTime
         /\ smoothedChords[k].endTime = candidates[RunEnd(candidates, k)].endTime
         /\ k < Len(smoothedChords) =>
              /\ smoothedChords[k].chord # smoothedChords[k + 1].chord
              /\ smoothedChords[k].endTime = smoothedChords[k + 1].startTime
    /\ Len(candidates) > 0 =>
         /\ smoothedChords[1].startTime = Int2Num(0)
         /\ smoothedChords[Len(smoothedChords)].endTime =
              Rat(Len(candidates) * hopSize, sampleRate)

\* five candidates were merged into three segments, the first of two
\* frames and the last of two frames
C11_Witness ==
  /\ pc = "done"
  /\ Len(candidates) = 5
  /\ Len(smoothedChords) = 3
  /\ smoothedChords[1].endTime = FrameEndTime(1, hopSize, sampleRate)
  /\ smoothedChords[3].startTime = FrameStartTime(3, hopSize, sampleRate)

\* the length of a segment, the positions of the merged segments that are
\* at least minDuration long, and the j-th of these positions
SegmentDuration(segment) == NumSub(segment.endTime, segment.startTime)

KeptPositions ==
  {k \in 1..Len(smoothedChords) :
     ~NumLt(SegmentDuration(smoothedChords[k]), minDuration)}

KeptPosition(j) ==
  CHOOSE k \in KeptPositions : Cardinality({l \in KeptPositions : l < k}) = j - 1

\* C12: the returned list is the subsequence of the merged segments that
\* are not shorter than minDuration (one of exactly minDuration is kept),
\* in the original order and each equal to its merged segment in label,
\* start, end and confidence.
C12_FilterKeepsLongEnough ==
  pc = "done" =>
    /\ Len(processedChords) = Cardinality(KeptPositions)
    /\ \A j \in 1..Len(processedChords) :
         processedChords[j] = smoothedChords[KeptPosition(j)]

\* of three merged segments the middle one was dropped: the first of the
\* two returned is exactly minDuration long, they have the same label and
\* were not merged again
C12_Witness ==
  /\ pc = "done"
  /\ Len(smoothedChords) = 3
  /\ Len(processedChords) = 2
  /\ SegmentDuration(processedChords[1]) = minDuration
  /\ processedChords[1].chord = processedChords[2].chord
  /\ processedChords[1] = smoothedChords[1]
  /\ processedChords[2] = smoothedChords[3]

\* the sum of the confidences of the candidates at the positions from..to
RECURSIVE ConfidenceSum(_, _, _)
ConfidenceSum(list, from, to) ==
  IF from > to THEN RealZero
  ELSE RealAdd(list[from].confidence, ConfidenceSum(list, from + 1, to))

\* C13: the confidence of each merged segment is the mean of the
\* confidences of the candidates of its run, (c1 + ... + cn) / n.
C13_ConfidenceIsMean ==
  pc = "done" =>
    \A k \in 1..Len(smoothedChords) :
      smoothedChords[k].confidence =
        RealDivInt(ConfidenceSum(candidates, RunStart(candidates, k),
                                 RunEnd(candidates, k)),
                   RunEnd(candidates, k) - RunStart(candidates, k) + 1)

\* C14: postProcessChords leaves the candidates it was given as they were:
\* after the call every element of the list has the label, start, end and
\* confidence it had before.
C14_InputUnchanged ==
  pc = "done" => rawChords = candidates

\* the interval lists of the nine qualities, by the index of the quality
\* in chordTypes
CanonicalIntervals ==
  << <<0, 4, 7>>, <<0, 3, 7>>, <<0, 4, 7, 10>>, <<0, 4, 7, 11>>,
     <<0, 3, 7, 10>>, <<0, 3, 6>>, <<0, 4, 8>>, <<0, 2, 7>>, <<0, 5, 7>> >>

\* C15: for each of the twelve root names, of index r, and each of the
\* nine qualities, chordToNotes of the root followed by the quality's
\* suffix is the list of the pitches 60 + r + i for i in the quality's
\* interval list, in that order.
C15_CanonicalPitches ==
  \A r \in 0..11, q \in 1..Len(chordTypes) :
    (notes # None /\ chordName = noteNames[r + 1] \o ChordSuffix(chordTypes[q])) =>
      notes.returned = [i \in 1..Len(CanonicalIntervals[q]) |->
                          60 + r + CanonicalIntervals[q][i]]

\* chordToNotes("G7") returned 67, 71, 74, 77
C15_Witness ==
  /\ chordName = <<"G", "7">>
  /\ notes # None
  /\ notes.returned = <<67, 71, 74, 77>>

\* the five flat roots, each with its enharmonic sharp and its pitch at
\* octave 4
Enharmonics ==
  {[flat |-> <<"D", "b">>, sharp |-> <<"C", "#">>, pitch |-> 61],
   [flat |-> <<"E", "b">>, sharp |-> <<"D", "#">>, pitch |-> 63],
   [flat |-> <<"G", "b">>, sharp |-> <<"F", "#">>, pitch |-> 66],
   [flat |-> <<"A", "b">>, sharp |-> <<"G", "#">>, pitch |-> 68],
   [flat |-> <<"B", "b">>, sharp |-> <<"A", "#">>, pitch |-> 70]}

\* C16: chordToNotes of a flat root followed by one of the nine suffixes
\* starts at the pitch of the enharmonic sharp (Db 61, Eb 63, Gb 66, Ab 68,
\* Bb 70) and equals chordToNotes of the sharp root with the same suffix.
C16_FlatsAsSharps ==
  \A e \in Enharmonics, q \in 1..Len(chordTypes) :
    (notes # None /\ chordName = e.flat \o ChordSuffix(chordTypes[q])) =>
      /\ notes.returned[1] = e.pitch
      /\ notes.returned = chordToNotes(e.sharp \o ChordSuffix(chordTypes[q]))

\* the valid roots with their pitch at octave 4: the twelve note names
\* and the five flats
RootPitches ==
  {[name |-> noteNames[r + 1], pitch |-> 60 + r] : r \in 0..11}
  \cup {[name |-> e.flat, pitch |-> e.pitch] : e \in Enharmonics}

\* C17: chordToNotes of a valid root followed by an alphanumeric suffix
\* that is none of the nine is the major triad on the root: root, root + 4,
\* root + 7.
C17_UnknownQualityMajor ==
  \A root \in RootPitches, suffix \in UnknownSuffixes :
    (notes # None /\ chordName = root.name \o suffix) =>
      notes.returned = <<root.pitch, root.pitch + 4, root.pitch + 7>>

\* the same for the twelve note names only, none of them a flat
C17_UnknownQualityMajorOnNoteNames ==
  \A r \in 0..11, suffix \in UnknownSuffixes :
    (notes # None /\ chordName = noteNames[r + 1] \o suffix) =>
      notes.returned = <<60 + r, 64 + r, 67 + r>>

\* the notes of the chords track a generator added for segment k: those
\* at its start time (the segments start at different times)
SegmentNotes(k) ==
  SelectSeq(midi.chords, LAMBDA note : note.time = segments[k].startTime)

\* three notes, the second 4 and the third 7 semitones above the first
IsMajorTriad(added) ==
  /\ Len(added) = 3
  /\ added[2].midi = added[1].midi + 4
  /\ added[3].midi = added[1].midi + 7

\* the names MidiGenerator cannot parse, those it parses with a quality
\* that is none of its nine, and the same for midiUtils and its table
Unparseable(name) == MatchChordName(name) = Null

UnknownQuality(name) ==
  /\ MatchChordName(name) # Null
  /\ MatchChordName(name).chordType \notin KnownSuffixes

UnparseableByUtils(name) == parseChordName(name) = Null

UnknownQualityByUtils(name) ==
  /\ parseChordName(name) # Null
  /\ \A entry \in chordQualityIntervals :
       entry[1] # parseChordName(name).quality

PitchesOf(generator, segment) ==
  IF generator = "midiUtils.generateMidiFromChords"
  THEN ChordResultNotes(ChordResult(segment)).notes
  ELSE chordToNotes(segment.chord)

\* for the segments from..to in order, one note for each pitch of the
\* chord in order, from the start of the segment to its end
RECURSIVE NotePerPitch(_, _, _, _)
NotePerPitch(from, to, generator, velocity) ==
  IF from > to THEN <<>>
  ELSE [i \in 1..Len(PitchesOf(generator, segments[from])) |->
          [midi |-> PitchesOf(generator, segments[from])[i],
           time |-> segments[from].startTime,
           duration |-> NumSub(segments[from].endTime, segments[from].startTime),
           velocity |-> velocity]]
       \o NotePerPitch(from + 1, to, generator, velocity)

\* the last segment a generator gets through: midiUtils stops before the
\* first segment at which it throws
LastSegmentDone ==
  IF midi.threw
  THEN (CHOOSE k \in 1..Len(segments) :
          /\ ChordResultNotes(ChordResult(segments[k])).threw
          /\ \A j \in 1..(k - 1) : ~ChordResultNotes(ChordResult(segments[j])).threw) - 1
  ELSE Len(segments)

SegmentMelody(k) ==
  SelectSeq(midi.melody,
            LAMBDA note : /\ NumLe(segments[k].startTime, note.time)
                          /\ NumLt(note.time, segments[k].endTime))

\* the arpeggio of the pitches over a segment of duration d from start,
\* with sub-beat s: floor(d / s) notes, the i-th (from 0) of pitch
\* p(i mod n) + 12 at start + i * s, 0.8 * s long and of velocity 0.8
Arpeggio(pitches, start, d, s) ==
  [j \in 1..(NumDiv(d, s)[1] \div NumDiv(d, s)[2]) |->
     [midi |-> Int2Num(pitches[((j - 1) % Len(pitches)) + 1] + 12),
      time |-> NumAdd(start, NumMul(Int2Num(j - 1), s)),
      duration |-> NumMul(Rat(4, 5), s),
      velocity |-> Rat(4, 5)]]

\* C20: for a segment of duration d > 0 whose chord has n pitches, the
\* melody track of generateMidiWithMelody has the arpeggio of the pitches
\* with the sub-beat min(0.25, d / n).
C20_MelodyArpeggio ==
  (midi # None /\ midi.generator = "MidiGenerator.generateMidiWithMelody") =>
    \A k \in 1..Len(segments) :
      LET pitches == chordToNotes(segments[k].chord)
          d == NumSub(segments[k].endTime, segments[k].startTime)
          even == NumDiv(d, Int2Num(Len(pitches)))
      IN  (Len(pitches) > 0 /\ NumGt(d, Int2Num(0))) =>
            SegmentMelody(k) =
              Arpeggio(pitches, segments[k].startTime, d,
                       IF NumLt(even, Rat(1, 4)) THEN even ELSE Rat(1, 4))

\* generateMidiWithMelody was given "C" for one second: the melody has
\* four notes a quarter of a second apart, the fourth the root again, an
\* octave above the chord
C20_Witness ==
  /\ midi # None
  /\ midi.generator = "MidiGenerator.generateMidiWithMelody"
  /\ Len(segments) = 1
  /\ segments[1].chord = <<"C">>
  /\ segments[1].endTime = Int2Num(1)
  /\ Len(midi.melody) = 4
  /\ midi.melody[4] = [midi |-> Int2Num(72), time |-> Rat(3, 4),
                        duration |-> Rat(1, 5), velocity |-> Rat(4, 5)]

\* a pitch that is an integer from 0 to 127
MidiPitch(pitch) == pitch \in {Int2Num(k) : k \in 0..127}

\* C21: every note of the chords track and of the melody track of each of
\* the three generators, whatever the labels of the segments, has an
\* integer pitch from 0 to 127.
C21_PitchInRange ==
  midi # None =>
    /\ \A i \in 1..Len(midi.chords) : midi.chords[i].midi \in 0..127
    /\ \A i \in 1..Len(midi.melody) : MidiPitch(midi.melody[i].midi)

\* the call that has completed ran on the inputs of the remembered run
SameInputs ==
  /\ pc = "done"
  /\ earlier # None
  /\ earlier.chroma = chromaFeatures
  /\ earlier.rate = bufferRate
  /\ earlier.minimum = minDuration

\* C22: a call of detectChords that ran on the chroma sequence, sample
\* rate and minDuration of an earlier call on the same detector returns
\* the segments of the earlier call, and the notes made of them are the
\* same, whatever calls were made in between.
C22_Deterministic ==
  SameInputs =>
    /\ processedChords = earlier.chords
    /\ generateMidiFromChords(processedChords) = earlier.notes

\* a buffer of two frames at 48000 Hz was analysed a second time and gave
\* a segment again
C22_Witness ==
  /\ SameInputs
  /\ bufferRate = 48000
  /\ Len(chromaFeatures) = 2
  /\ Len(processedChords) > 0
  /\ Len(earlier.notes) > 0

\* the frame configuration extractChromaFeatures was given is structurally
\* invalid
InvalidConfiguration ==
  /\ extraction # None
  /\ \/ extraction.hopSize > extraction.frameSize
     \/ extraction.frameSize <= 0
     \/ extraction.hopSize <= 0

ResultAlone(c) ==
  postProcessChords(
    detectChordsFromChroma(calls[c].chroma, hopSize, calls[c].rate),
    calls[c].minimum).result

\* C24: each of two detectChords calls in flight on one initialized
\* detector returns what it returns when run alone, its frames
\* timestamped with the sample rate of its own buffer.
C24_CallsIndependent ==
  calls # None =>
    \A c \in CallIds : calls[c].pc = "done" => calls[c].result = ResultAlone(c)

\* the pitches 60 + r + i for the indices i at which the template of a
\* quality has weight 1
TemplatePitches(r, chordType) ==
  {60 + r + i : i \in {j \in 0..11 : chordTemplates[TypeNumber(chordType)][j + 1] = 1}}

\* a list of pitches is a listing of a set of pitches without repetition
ListsPitches(list, pitches) ==
  /\ {list[i] : i \in 1..Len(list)} = pitches
  /\ Len(list) = Cardinality(pitches)

\* C25: the name findBestMatchingChord makes of a root r and a template
\* quality is parsed by chordToNotes into the pitches 60 + r + i, i the
\* indices at which the quality's template has weight 1: for the label of
\* each match, and for the name of every root and quality.
C25_LabelRoundTrip ==
  /\ notes # None =>
       ListsPitches(notes.returned, TemplatePitches(match.root, match.chordType))
  /\ \A r \in 0..11, t \in 1..Len(chordTypes) :
       ListsPitches(chordToNotes(noteNames[r + 1] \o ChordSuffix(chordTypes[t])),
                    TemplatePitches(r, chordTypes[t]))

\* the matcher named the chroma F#, A, C#, E "F#m7" and chordToNotes made
\* 66, 69, 73, 76 of the name
C25_Witness ==
  /\ match # None
  /\ match.chordName = <<"F", "#", "m", "7">>
  /\ notes # None
  /\ notes.returned = <<66, 69, 73, 76>>

\* the time at which a note ends
NoteEnd(note) == NumAdd(note.time, note.duration)

\* C26: in the melody track of generateMidiWithMelody every note lies in
\* a segment, from its start to its end; and for a segment of positive
\* duration whose chord has n >= 1 pitches, the notes that start in it
\* number at least n, none begins before the one before it has ended, and
\* every pitch of the chord sounds among them, an octave higher.
C26_MelodyInsideSegment ==
  (midi # None /\ midi.generator = "MidiGenerator.generateMidiWithMelody") =>
    /\ \A i \in 1..Len(midi.melody) :
         \E k \in 1..Len(segments) :
           /\ NumLe(segments[k].startTime, midi.melody[i].time)
           /\ NumLe(NoteEnd(midi.melody[i]), segments[k].endTime)
    /\ \A k \in 1..Len(segments) :
         LET pitches == chordToNotes(segments[k].chord)
             sounding == SegmentMelody(k)
         IN  (/\ Len(pitches) >= 1
              /\ NumGt(NumSub(segments[k].endTime, segments[k].startTime),
                       Int2Num(0))) =>
               /\ Len(sounding) >= Len(pitches)
               /\ \A i \in 1..(Len(sounding) - 1) :
                    NumLe(NoteEnd(sounding[i]), sounding[i + 1].time)
               /\ \A p \in 1..Len(pitches) :
                    \E i \in 1..Len(sounding) :
                      sounding[i].midi = Int2Num(pitches[p] + 12)

\* generateMidiWithMelody was given "G7" for 0.9 seconds: the melody has
\* one note for each of the four pitches, 0.225 seconds apart, the last
\* ending at 0.855
C26_Witness ==
  /\ midi # None
  /\ midi.generator = "MidiGenerator.generateMidiWithMelody"
  /\ Len(segments) = 1
  /\ segments[1].chord = <<"G", "7">>
  /\ segments[1].endTime = Rat(9, 10)
  /\ Len(midi.melody) = 4
  /\ midi.melody[4].midi = Int2Num(89)
  /\ NoteEnd(midi.melody[4]) = Rat(171, 200)

\* C27: a request to POST /api/youtube-audio whose YouTube URL is missing,
\* not a string or invalid is answered with status 400, no temporary
\* directory created and the downloader never invoked; whenever the
\* temporary directory was created its removal has been attempted by the
\* time the response is delivered; a failure of the download, the file
\* lookup, the file read, chord detection or MIDI generation is answered
\* with status 500 and an error message; and a failure of the title
\* lookup alone leaves the response successful.
C27_NoTempDirOutlivesRequest ==
  response # None =>
    /\ ~UrlAccepted(youtubeUrlOf(request)) =>
         /\ response.status = 400
         /\ tempDir = "none"
         /\ invocations = <<>>
    /\ tempDir # "none" => removals >= 1
    /\ failed \in {"download", "lookup", "readFile", "detect", "midi"} =>
         /\ response.status = 500
         /\ "error" \in DOMAIN response
    /\ failed = "title" => response.status = 200

\* C28: on the Home page processingState becomes 'error', and appData is
\* cleared, only by a processing attempt that failed or returned incomplete
\* data (appData also by the start of a new attempt); processingState =
\* 'complete' implies appData is not null; and editing the YouTube URL
\* field changes neither processingState nor appData.
C28_ErrorOnlyFromFailedAttempt ==
  /\ [](processingState = "complete" => appData # Null)
  /\ [][/\ lastEvent' = "edit" =>
             /\ processingState' = processingState
             /\ appData' = appData
        /\ (processingState # "error" /\ processingState' = "error") =>
             lastEvent' \in {"failed", "incomplete", "rejected"}
        /\ (appData # Null /\ appData' = Null) =>
             lastEvent' \in {"failed", "incomplete", "rejected", "start"}]_vars

\* the events and the ids of the latest MIDI's own load
LatestEvents == {e \in transportEvents : e.midi = midiBase64}

\* C29: when every loadMidi has settled and the load of the latest MIDI
\* succeeded, the transport holds events of the latest MIDI only, one set
\* of them, durationRef is the latest MIDI's duration, and
\* scheduledEventsRef holds exactly the ids of those events.
C29_OnlyLatestMidiScheduled ==
  (/\ loading = {}
   /\ midiBase64 # NoMidi
   /\ [load |-> Len(supplied), ok |-> TRUE] \in settled) =>
    /\ transportEvents = LatestEvents
    /\ Cardinality(transportEvents) = Len(ParsedMidi(midiBase64).notes) + 1
    /\ durationRef = ParsedMidi(midiBase64).duration
    /\ Len(scheduledEventsRef) = Cardinality(transportEvents)
    /\ {scheduledEventsRef[i] : i \in DOMAIN scheduledEventsRef}
         = {e.id : e \in transportEvents}

\* a call of seekToTime with a time inside the MIDI
SeekInRange ==
  /\ lastCall.name = "seekToTime"
  /\ lastCall.time >= 0
  /\ lastCall.time <= lastCall.duration

\* C30: in the chord-list MidiPlayer, after seekToTime(t) with
\* 0 <= t <= duration called while playing, the transport position and
\* currentTime are t and isPlaying is true; seekToTime(t) with t < 0 or
\* t > duration changes nothing; and after every startPlayback the
\* transport holds the events scheduled by that call only, each note once.
C30_SeekResumesFromTime ==
  /\ []((SeekInRange /\ lastCall.wasPlaying /\ starting = 0) =>
          /\ transportSeconds = lastCall.time
          /\ currentTime = lastCall.time
          /\ isPlaying)
  /\ []({e.id : e \in transportEvents} = KeptIds)
  /\ [](\A e1 \in transportEvents, e2 \in transportEvents :
          e1.index = e2.index => e1 = e2)
  /\ [][(lastCall'.name = "seekToTime" /\ lastCall' # lastCall
         /\ (lastCall'.time < 0 \/ lastCall'.time > lastCall'.duration)) =>
          UNCHANGED <<isPlaying, currentTime, duration, currentChordIndex,
                      transportState, transportSeconds, starting,
                      scheduledEventsRef, transportEvents>>]_vars

====
